---- MODULE Spec2Model ----
(***************************************************************************)
(* State-machine model of the AcoustiTracePro acoustic engine world        *)
(* subsystem (UAcousticEngineSubsystem), of the source components          *)
(* (UAcousticSourceComponent) that register with it, and of the zone and   *)
(* portal volumes (AAcousticZoneVolume, AAcousticPortalVolume).            *)
(*                                                                         *)
(* Units.  Time is counted in frames of 1/60 s, so the cache time          *)
(* OcclusionCacheFrames / 60 s is OcclusionCacheFrames units and an update *)
(* rate of r Hz is an interval of 60 / r units.  Distances are in cm, as   *)
(* in the engine.  Floats are modelled by exact scaled integers:           *)
(*   priority scores     in units of 1 / ScoreScale                        *)
(*   BaseLoudness        in halves        (2 = 1.0)                        *)
(*   importance factors  in quarters      (4 = 1.0)                        *)
(*   occlusion, gains, absorption, transmission, realism in percent        *)
(*   low-pass cutoffs    in tenths of a Hz                                 *)
(*   reverb sends        in units of 1 / 2000                              *)
(*   portal openness     in units of 1 / OpennessScale                     *)
(* Positions are points of a line; a zone is an interval of it.            *)
(***************************************************************************)
EXTENDS Integers, Sequences, FiniteSets, TLC

(***************************************************************************)
(* Enumerations (AcousticTypes.h)                                          *)
(***************************************************************************)
Off == 0
Basic == 1
Advanced == 2
Hero == 3
LODs == {Off, Basic, Advanced, Hero}

Background == 0
Normal == 1
Important == 2
Critical == 3
Importances == {Background, Normal, Important, Critical}

(***************************************************************************)
(* Bounds of the model                                                     *)
(***************************************************************************)
\* number of source component handles in the engine specification
NumComps == 3
\* platform time (frames) at which the first tick can happen
StartTime == 6
\* number of frames after StartTime during which ticks are explored
TimeHorizon == 8

Comps == 1..NumComps
NoComp == 0
MaxTime == StartTime + TimeHorizon

(***************************************************************************)
(* Constants of the engine                                                 *)
(***************************************************************************)
\* AcousticConstants::MinDistance
MinDistance == 1
\* FLT_MAX, in score units: above every score the model can compute
FLT_MAX == 2000000000
\* one score unit is 1 / ScoreScale: BaseLoudness in halves (2), importance
\* factor in quarters (4), and 100 / Distance exact for the modelled distances
ScoreScale == 2 * 4 * 200
\* FEarlyReflectionParams::MaxTaps
MaxTaps == 8
\* AcousticConstants::DefaultLPFCutoff and OccludedLPFCutoff, in 0.1 Hz
DefaultLPFCutoff == 10 * 20000
OccludedLPFCutoff == 10 * 500

Min(a, b) == IF a < b THEN a ELSE b
Max(a, b) == IF a > b THEN a ELSE b
Clamp(x, lo, hi) == IF x < lo THEN lo ELSE IF x > hi THEN hi ELSE x

(***************************************************************************)
(* UAcousticSourceComponent::ComputePriorityScore                          *)
(*   c is the component's property record, dist the raw distance from the  *)
(*   component's acoustic location to the listener location.               *)
(***************************************************************************)
\* static const float ImportanceMultipliers[] = { 0.25f, 1.0f, 2.0f, 10.0f }
ImportanceMultipliers == <<1, 4, 8, 40>>

\* a manual override >= 0 is returned verbatim, before anything else
HasPriorityOverride(c) == c.PriorityOverride >= 0

\* mutant: Critical importance is only its multiplier, without FLT_MAX
ComputePriorityScore_NoCritical(c, dist) ==
    IF HasPriorityOverride(c)
    THEN c.PriorityOverride * ScoreScale
    ELSE LET Distance == Max(dist, 1)
             DistanceFactor100 == (100 * 200) \div Distance
             Base == c.BaseLoudness * DistanceFactor100
             Imp == Base * ImportanceMultipliers[c.Importance + 1]
         IN  IF c.IsHero THEN Imp * 100 ELSE Imp

\* mutant: the override is ignored
ComputePriorityScore_NoOverride(c, dist) ==
    LET Distance == Max(dist, 1)
        DistanceFactor100 == (100 * 200) \div Distance
        Base == c.BaseLoudness * DistanceFactor100
        Imp == Base * ImportanceMultipliers[c.Importance + 1]
        Boost == IF c.IsHero THEN Imp * 100 ELSE Imp
    IN  IF c.Importance = Critical THEN FLT_MAX ELSE Boost

\* mutant: the hero flag gives no boost
ComputePriorityScore_NoHero(c, dist) ==
    IF HasPriorityOverride(c)
    THEN c.PriorityOverride * ScoreScale
    ELSE LET Distance == Max(dist, 1)
             DistanceFactor100 == (100 * 200) \div Distance
             Base == c.BaseLoudness * DistanceFactor100
             Imp == Base * ImportanceMultipliers[c.Importance + 1]
         IN  IF c.Importance = Critical THEN FLT_MAX ELSE Imp

ComputePriorityScore(c, dist) ==
    IF HasPriorityOverride(c)
    THEN c.PriorityOverride * ScoreScale
    ELSE LET Distance == Max(dist, 1)
             \* 1 / (Distance / 100), times 200 to stay exact
             DistanceFactor100 == (100 * 200) \div Distance
             Base == c.BaseLoudness * DistanceFactor100
             \* ImportanceIndex >= 0 && ImportanceIndex < 4 always holds
             Imp == Base * ImportanceMultipliers[c.Importance + 1]
             Boost == IF c.IsHero THEN Imp * 100 ELSE Imp
         IN  IF c.Importance = Critical THEN FLT_MAX ELSE Boost

(***************************************************************************)
(* Value types (AcousticTypes.h)                                           *)
(***************************************************************************)
\* FAcousticMaterial as GetAcousticMaterial(nullptr) returns it
DefaultMaterial ==
    [Transmission |-> 0, LowAbsorption |-> 10, MidAbsorption |-> 20,
     HighAbsorption |-> 30]

\* FAcousticMaterial::GetAverageAbsorption
GetAverageAbsorption(m) ==
    (m.LowAbsorption + m.MidAbsorption + m.HighAbsorption) \div 3

\* FEarlyReflectionParams after Reset(): no valid tap
EmptyReflections ==
    [Taps |-> <<>>, ValidTapCount |-> 0, ReflectionDensity |-> 0]

\* FAcousticZonePreset::DefaultReverbSend = 0.3f, in 1/2000
DefaultReverbSend == 3 * 200

\* FAcousticSourceParams after Reset()
ResetParams ==
    [Occlusion |-> 0, LowPassCutoff |-> DefaultLPFCutoff,
     TransmissionGain |-> 100, ReverbSend |-> DefaultReverbSend,
     EarlyReflections |-> EmptyReflections, Distance |-> 0,
     bIsValid |-> FALSE]

\* a ray that hit nothing: FAcousticRayHit with bIsValidHit = false
NoHit == [bIsValidHit |-> FALSE, Distance |-> 0, Material |-> DefaultMaterial]
RayHit(d, m) == [bIsValidHit |-> TRUE, Distance |-> d, Material |-> m]

(***************************************************************************)
(* UAcousticEngineSubsystem: pure helpers                                  *)
(***************************************************************************)
\* mutant: the realism factor is not applied
ComputeOcclusionFactor_NoRealism(hit, realism) ==
    IF ~hit.bIsValidHit THEN 0
    ELSE Clamp(100 - hit.Material.Transmission, 0, 100)

\* ComputeOcclusionFactor, in percent; realism is Settings->RealismFactor
ComputeOcclusionFactor(hit, realism) ==
    IF ~hit.bIsValidHit THEN 0
    ELSE Clamp(((100 - hit.Material.Transmission) * realism) \div 100, 0, 100)

\* ComputeLPFFromOcclusion, in 0.1 Hz
ComputeLPFFromOcclusion(occ, m) ==
    LET MinCutoff == (OccludedLPFCutoff * (200 - m.HighAbsorption)) \div 200
    IN  DefaultLPFCutoff + (occ * (MinCutoff - DefaultLPFCutoff)) \div 100

\* the hits sorted by ascending distance (SortedHits.Sort)
RECURSIVE SortHits(_)
SortHits(hits) ==
    IF hits = <<>> THEN <<>>
    ELSE LET n == Len(hits)
             m == CHOOSE i \in 1..n :
                    \A j \in 1..n :
                       \/ hits[i].Distance < hits[j].Distance
                       \/ (hits[i].Distance = hits[j].Distance /\ i <= j)
             rest == [k \in 1..(n - 1) |-> IF k < m THEN hits[k] ELSE hits[k + 1]]
         IN  <<hits[m]>> \o SortHits(rest)

\* one tap of ClusterReflections: delay in microseconds, gain in 1/1000,
\* cutoff in 0.1 Hz
MakeTap(hit) ==
    [DelayMs |-> (hit.Distance * 1000 * 1000) \div 34300,
     Gain |-> Clamp(((100 - GetAverageAbsorption(hit.Material)) * 500)
                      \div Max(hit.Distance, 100), 0, 1000),
     LPFCutoff |-> DefaultLPFCutoff
                     - ((DefaultLPFCutoff - 10 * 3000) * hit.Material.HighAbsorption) \div 100,
     bIsValid |-> TRUE]

\* ClusterReflections: the tap set is rebuilt from the hits alone
ClusterReflections(hits) ==
    IF hits = <<>> THEN EmptyReflections
    ELSE LET sorted == SortHits(hits)
             NumTaps == Min(Len(sorted), MaxTaps)
         IN  [Taps |-> [i \in 1..NumTaps |-> MakeTap(sorted[i])],
              ValidTapCount |-> NumTaps,
              \* Clamp(Hits.Num() / 20.0f, 0, 1), in twentieths
              ReflectionDensity |-> Clamp(Len(hits), 0, 20)]

\* FMath::Lerp(send, send * 1.5f, density)
ReflectionReverbSend(send, density) ==
    send + (density * ((send * 3) \div 2 - send)) \div 20

(***************************************************************************)
(* State                                                                   *)
(***************************************************************************)
VARIABLES
    Settings,                    \* UAcousticSettings (configuration object)
    comp,                        \* the source components, by handle
    RegisteredSources,           \* TMap<int32, FAcousticSourceEntry>
    NextSourceId,                \* int32 NextSourceId
    CurrentBudget,               \* FRayBudgetAllocation
    OcclusionUpdateAccumulator,
    ReflectionUpdateAccumulator,
    ZoneUpdateAccumulator,
    now,                         \* FPlatformTime::Seconds(), in frames
    pc,                          \* position of the tick in ProcessAcousticUpdate
    iter,                        \* entries the running pass has still to visit
    probe,                       \* inputs and results of the pure-function checks
    ListenerDataArray,           \* TArray<FAcousticListenerData>
    zone,                        \* the zone volumes of the world, by handle
    RegisteredZones,             \* TArray<TWeakObjectPtr<AAcousticZoneVolume>>
    NextZoneId,                  \* static int32 NextZoneId of the zone constructor
    portal,                      \* the portal volumes of the world, by handle
    NextPortalId,                \* static int32 NextPortalId of the portal constructor
    ParamsUpdated,               \* (SourceId, params) delivered by the latest tick
    ZoneChanged,                 \* the OnAcousticZoneChanged broadcasts made so far
    Preset,                      \* UAcousticZoneReverbPreset::Settings
    reverb,                      \* the fields of FAcousticZoneReverbEffect
    audio,                       \* the audio side: its position in OnProcessAudio
    writer,                      \* the simulation side: its position in SetTargetSettings
    master,                      \* the fields of FAcousticMasterEffect and its last sample
    delay,                       \* the delay lines of one DSP effect instance
    net                          \* the endpoints of a network game, each with its own world

\* the zone and portal actors and the counters of their constructors
worldVars == <<zone, RegisteredZones, NextZoneId, portal, NextPortalId>>

\* the listeners and what the engine has broadcast
eventVars == <<ListenerDataArray, ParamsUpdated, ZoneChanged>>

\* the submix effects and the two sides that touch them
dspVars == <<Preset, reverb, audio, writer, master, delay>>

vars == <<Settings, comp, RegisteredSources, NextSourceId, CurrentBudget,
          OcclusionUpdateAccumulator, ReflectionUpdateAccumulator,
          ZoneUpdateAccumulator, now, pc, iter, probe, worldVars, eventVars,
          dspVars, net>>

engineVars == <<Settings, comp, RegisteredSources, NextSourceId, CurrentBudget,
                OcclusionUpdateAccumulator, ReflectionUpdateAccumulator,
                ZoneUpdateAccumulator, now, pc, iter>>

NoProbe == [phase |-> "none"]

\* number of zone volumes and of portal volumes the world can hold at once
NumZones == 2
NumPortals == 2
Zones == 1..NumZones
Portals == 1..NumPortals

\* FAcousticListenerData as its default member initialisers leave it
\* (positions are points of a line)
DefaultListenerData == [Location |-> 0, CurrentZoneId |-> -1]

\* a zone handle no actor has been constructed for; ZoneId has the default
\* member initialiser of the header
NoZone == [life |-> "none", ZoneId |-> -1, Priority |-> 0, Lo |-> 0, Hi |-> 0,
           bHasBegunPlay |-> FALSE, DefaultReverbSend |-> DefaultReverbSend]

\* a portal handle no actor has been constructed for
NoPortal == [life |-> "none", PortalId |-> -1, bIsOpen |-> TRUE, Openness |-> 0,
             TargetOpenness |-> 0, TransitionTime |-> 0, TickEnabled |-> FALSE]

\* the keys of the registry in iteration order: ascending, which is the
\* order of insertion because IDs only grow (a TMap keeps that order while no
\* entry has been removed; after a removal the order decides only which
\* entry is first to draw on the ray budget)
RECURSIVE SeqOfSet(_)
SeqOfSet(S) ==
    IF S = {} THEN <<>>
    ELSE LET m == CHOOSE x \in S : \A y \in S : x <= y
         IN  <<m>> \o SeqOfSet(S \ {m})

Ids == DOMAIN RegisteredSources

\* TWeakObjectPtr::Get() != nullptr
IsLive(c) == comp[c].life = "alive"

\* FAcousticSourceEntry as RegisterSource builds it
NewEntry(c, id) ==
    [SourceComponent |-> c,
     SourceId |-> id,
     CurrentParams |-> ResetParams,
     PreviousParams |-> ResetParams,
     EffectiveLOD |-> comp[c].AcousticLOD,
     PriorityScore |-> 0,
     LastOcclusionUpdateTime |-> 0,
     LastReflectionUpdateTime |-> 0,
     bIsAudible |-> TRUE]

\* UAcousticSourceComponent after its constructor, with its edited properties
NewComponent(lod, imp, hero, loud, over, loc) ==
    [life |-> "alive", AcousticLOD |-> lod, Importance |-> imp, IsHero |-> hero,
     BaseLoudness |-> loud, PriorityOverride |-> over, Location |-> loc,
     bIsRegistered |-> FALSE, SourceId |-> -1,
     \* the component's own EffectiveLOD member and its AlwaysAudible flag
     EffectiveLOD |-> Basic, AlwaysAudible |-> FALSE]

\* UAcousticSettings; the numbers a configuration may hold
MakeSettings(rays, hero, adv) ==
    [MaxRaysPerFrame |-> rays, MaxHeroSources |-> hero, MaxAdvancedSources |-> adv,
     AdvancedReflectionRays |-> 2, HeroReflectionRays |-> 3,
     BasicLODDistance |-> 3000, OffLODDistance |-> 8000,
     OcclusionCacheFrames |-> 5, RealismFactor |-> 70,
     OcclusionInterval |-> 2, ReflectionInterval |-> 4, ZoneInterval |-> 3]

\* the state after Initialize(): an empty registry and a full budget.  The
\* components are those placed in the world, with properties drawn from the
\* sequence Profiles; handles are interchangeable (IDs go by the order of
\* registration), so the properties are drawn in non-decreasing order
InitEngine(SettingsChoices, Profiles) ==
    /\ Settings \in SettingsChoices
    /\ \E k \in [Comps -> 1..Len(Profiles)] :
          /\ \A c \in Comps : \A d \in Comps : c < d => k[c] <= k[d]
          /\ comp = [c \in Comps |-> Profiles[k[c]]]
    /\ RegisteredSources = <<>>
    /\ NextSourceId = 1
    /\ CurrentBudget = [OcclusionRays |-> 0, ReflectionRays |-> 0,
                        TotalRaysUsed |-> 0,
                        TotalRaysBudget |-> Settings.MaxRaysPerFrame]
    /\ OcclusionUpdateAccumulator = 0
    /\ ReflectionUpdateAccumulator = 0
    /\ ZoneUpdateAccumulator = 0
    /\ now = StartTime
    /\ pc = "idle"
    /\ iter = <<>>
    /\ ListenerDataArray = <<DefaultListenerData>>
    /\ RegisteredZones = <<>>
    /\ ParamsUpdated = <<>>
    /\ ZoneChanged = <<>>

\* a world in which no zone and no portal has been constructed
EmptyWorld ==
    /\ zone = [z \in Zones |-> NoZone]
    /\ NextZoneId = 1
    /\ portal = [p \in Portals |-> NoPortal]
    /\ NextPortalId = 1

(***************************************************************************)
(* Submix effects: FAcousticZoneReverbEffect                               *)
(*                                                                         *)
(* Audio time and BlendTime are counted in hundredths of a second, RT60 in *)
(* hundredths of a second, BlendProgress in hundredths.  Of the reverb     *)
(* settings the model keeps RT60 (every other shape parameter is blended   *)
(* by the same Lerp) and BlendTime.                                        *)
(***************************************************************************)
\* BlendProgress 1.0f
ProgressScale == 100

\* FMath::Max(CurrentSettings.BlendTime, 0.01f): the floor, 0.01 s
BlendTimeFloor == 1

\* audio time processed since a parameter change is counted up to this
ElapsedCap == 100

\* FAcousticZoneReverbSettings as default-constructed: RT60 1.5 s,
\* BlendTime 0.5 s
DefaultReverbSettings == [RT60 |-> 150, BlendTime |-> 50]

\* the effect as constructed: BlendProgress = 1.0f, bIsBlending = false
ConstructedReverb ==
    [CurrentSettings |-> DefaultReverbSettings,
     TargetSettings |-> DefaultReverbSettings,
     BlendProgress |-> ProgressScale,
     bIsBlending |-> FALSE]

\* the audio side between two blocks; ActiveSettings are the settings the
\* latest block used, Elapsed the audio time processed since the latest
\* parameter change
IdleAudio ==
    [pc |-> "idle", NumFrames |-> 0, ActiveSettings |-> DefaultReverbSettings,
     Elapsed |-> 0]

\* TargetSettings, bIsBlending and BlendProgress of an effect
Triple(fx) ==
    [TargetSettings |-> fx.TargetSettings, bIsBlending |-> fx.bIsBlending,
     BlendProgress |-> fx.BlendProgress]

\* the simulation side outside SetTargetSettings; InSettings is the argument
\* of the call, Old the triple the call found
IdleWriter ==
    [pc |-> "idle", InSettings |-> DefaultReverbSettings,
     Old |-> Triple(ConstructedReverb)]

\* FMath::IsNearlyZero
IsNearlyZero(x) == x = 0

\* OnPresetChanged: "if (FMath::IsNearlyZero(CurrentSettings.RT60))"
FirstTime(CurrentSettings) == IsNearlyZero(CurrentSettings.RT60)

\* OnPresetChanged, on the effect fx with the preset's settings
OnPresetChangedResult(fx, PresetSettings) ==
    IF FirstTime(fx.CurrentSettings)
    THEN [fx EXCEPT !.TargetSettings = PresetSettings,
                    !.CurrentSettings = PresetSettings]
    ELSE [fx EXCEPT !.TargetSettings = PresetSettings,
                    !.bIsBlending = TRUE,
                    !.BlendProgress = 0]

\* SetTargetSettings, as one step
SetTargetSettingsResult(fx, InSettings) ==
    [fx EXCEPT !.TargetSettings = InSettings,
               !.bIsBlending = TRUE,
               !.BlendProgress = 0]

\* UpdateBlend: "FMath::Max(CurrentSettings.BlendTime, 0.01f)"
BlendTimeOf(fx) == Max(fx.CurrentSettings.BlendTime, BlendTimeFloor)

\* UpdateBlend(NumFrames), FrameTime = NumFrames / SampleRate
UpdateBlend(fx, FrameTime) ==
    IF ~fx.bIsBlending THEN fx
    ELSE LET p == fx.BlendProgress + (ProgressScale * FrameTime) \div BlendTimeOf(fx)
         IN  IF p >= ProgressScale
             THEN [fx EXCEPT !.BlendProgress = ProgressScale,
                             !.CurrentSettings = fx.TargetSettings,
                             !.bIsBlending = FALSE]
             ELSE [fx EXCEPT !.BlendProgress = p]

\* an interpolation that jumps to B
Lerp_Snap(A, B, Alpha) == B

\* FMath::Lerp(A, B, Alpha), Alpha in hundredths
Lerp(A, B, Alpha) == A + ((B - A) * Alpha) \div ProgressScale

\* InterpolateSettings(Alpha)
InterpolateSettings(fx, Alpha) ==
    [RT60 |-> Lerp(fx.CurrentSettings.RT60, fx.TargetSettings.RT60, Alpha),
     BlendTime |-> fx.CurrentSettings.BlendTime]

\* OnProcessAudio: "bIsBlending ? InterpolateSettings(BlendProgress) :
\* CurrentSettings"
ActiveSettingsOf(fx) ==
    IF fx.bIsBlending THEN InterpolateSettings(fx, fx.BlendProgress)
    ELSE fx.CurrentSettings

notDspVars == <<engineVars, probe, worldVars, eventVars, net>>

\* UAcousticZoneReverbPreset::SetSettings followed by the effect's
\* OnPresetChanged, between two audio blocks
OnPresetChanged(NewSettings) ==
    /\ audio.pc = "idle"
    /\ writer.pc = "idle"
    /\ Preset' = NewSettings
    /\ reverb' = OnPresetChangedResult(reverb, NewSettings)
    /\ audio' = [audio EXCEPT !.Elapsed = 0]
    /\ UNCHANGED <<writer, master, delay, notDspVars>>

\* SetTargetSettings(InSettings), between two audio blocks
SetTargetSettings(InSettings) ==
    /\ audio.pc = "idle"
    /\ writer.pc = "idle"
    /\ reverb' = SetTargetSettingsResult(reverb, InSettings)
    /\ audio' = [audio EXCEPT !.Elapsed = 0]
    /\ UNCHANGED <<Preset, writer, master, delay, notDspVars>>

\* OnProcessAudio of one block of FrameTime, while the simulation side is
\* outside SetTargetSettings
OnProcessAudio(FrameTime) ==
    /\ audio.pc = "idle"
    /\ writer.pc = "idle"
    /\ \E fx \in {UpdateBlend(reverb, FrameTime)} :
          /\ reverb' = fx
          /\ audio' = [audio EXCEPT !.NumFrames = FrameTime,
                                    !.ActiveSettings = ActiveSettingsOf(fx),
                                    !.Elapsed = Min(@ + FrameTime, ElapsedCap)]
    /\ UNCHANGED <<Preset, writer, master, delay, notDspVars>>

(***************************************************************************)
(* The same effect with the two sides running at once: SetTargetSettings   *)
(* is three assignments, OnProcessAudio reads bIsBlending, runs            *)
(* UpdateBlend and then picks the settings of the block.  Nothing in the   *)
(* effect orders the accesses of the two sides, so every interleaving of   *)
(* these steps is a behaviour.                                             *)
(***************************************************************************)
\* the call of SetTargetSettings(InSettings)
WriterCall(InSettings) ==
    /\ writer.pc = "idle"
    /\ writer' = [pc |-> "TargetSettings", InSettings |-> InSettings,
                  Old |-> Triple(reverb)]
    /\ UNCHANGED <<Preset, reverb, audio, master, delay, notDspVars>>

\* "TargetSettings = InSettings;"
WriteTargetSettings ==
    /\ writer.pc = "TargetSettings"
    /\ reverb' = [reverb EXCEPT !.TargetSettings = writer.InSettings]
    /\ writer' = [writer EXCEPT !.pc = "bIsBlending"]
    /\ UNCHANGED <<Preset, audio, master, delay, notDspVars>>

\* "bIsBlending = true;"
WriteIsBlending ==
    /\ writer.pc = "bIsBlending"
    /\ reverb' = [reverb EXCEPT !.bIsBlending = TRUE]
    /\ writer' = [writer EXCEPT !.pc = "BlendProgress"]
    /\ UNCHANGED <<Preset, audio, master, delay, notDspVars>>

\* "BlendProgress = 0.0f;" and the return
WriteBlendProgress ==
    /\ writer.pc = "BlendProgress"
    /\ reverb' = [reverb EXCEPT !.BlendProgress = 0]
    /\ writer' = [writer EXCEPT !.pc = "idle"]
    /\ audio' = [audio EXCEPT !.Elapsed = 0]
    /\ UNCHANGED <<Preset, master, delay, notDspVars>>

\* OnProcessAudio begins: "if (bIsBlending)"
BlockBegin(FrameTime) ==
    /\ audio.pc = "idle"
    /\ audio' = [audio EXCEPT !.NumFrames = FrameTime,
                              !.pc = IF reverb.bIsBlending THEN "UpdateBlend"
                                     ELSE "ActiveSettings"]
    /\ UNCHANGED <<Preset, reverb, writer, master, delay, notDspVars>>

\* "UpdateBlend(NumFrames);"
BlockUpdateBlend ==
    /\ audio.pc = "UpdateBlend"
    /\ reverb' = UpdateBlend(reverb, audio.NumFrames)
    /\ audio' = [audio EXCEPT !.pc = "ActiveSettings"]
    /\ UNCHANGED <<Preset, writer, master, delay, notDspVars>>

\* "ActiveSettings = bIsBlending ? InterpolateSettings(BlendProgress) :
\* CurrentSettings;" and the rest of the block
BlockActiveSettings ==
    /\ audio.pc = "ActiveSettings"
    /\ audio' = [audio EXCEPT !.pc = "idle",
                              !.ActiveSettings = ActiveSettingsOf(reverb),
                              !.Elapsed = Min(@ + audio.NumFrames, ElapsedCap)]
    /\ UNCHANGED <<Preset, reverb, writer, master, delay, notDspVars>>

(***************************************************************************)
(* Submix effects: FAcousticMasterEffect                                   *)
(*                                                                         *)
(* Amplitudes are counted in 1/AmpScale, gains in 1/GainScale.  A frame    *)
(* carries the same sample on every channel.  OutputGainDb keeps its       *)
(* default of 0 dB.  The one-pole coefficients are those of the default    *)
(* sample rate of 48 kHz; the envelope moves by at least one unit where    *)
(* the float moves at all.                                                 *)
(***************************************************************************)
\* amplitude 1.0f
AmpScale == 480

\* gain 1.0f
GainScale == 1000

\* 1 / (1 - AttackCoeff), AttackCoeff = exp(-1 / 48): 1 ms at 48 kHz
AttackDiv == 48

\* 1 / (1 - ReleaseCoeff), ReleaseCoeff = exp(-1 / 4800): 100 ms at 48 kHz
ReleaseDiv == 4800

\* 1 / (1 - GainSmoothCoeff), GainSmoothCoeff = exp(-1 / 480): 10 ms
GainSmoothDiv == 480

\* FMath::Pow(10.0f, Db / 20.0f) as an amplitude, for the thresholds used
DbToAmplitude(Db) ==
    CASE Db = 0 -> AmpScale
      [] Db = -1 -> 428
      [] Db = -6 -> 241
      [] Db = -12 -> 121

\* FAcousticMasterSettings as default-constructed
DefaultMasterSettings == [bEnabled |-> TRUE, LimiterThresholdDb |-> -1]

\* the latest frame OnProcessAudio handled: the sample, what was written to
\* the output, and the bEnabled and LimiterThreshold of that call
NoFrame == [In |-> 0, Out |-> 0, bEnabled |-> FALSE, LimiterThreshold |-> AmpScale]

\* the effect after Init
ConstructedMaster ==
    [CurrentSettings |-> DefaultMasterSettings,
     LimiterEnvelope |-> 0,
     LimiterGain |-> GainScale,
     SmoothedOutputGain |-> GainScale,
     Frame |-> NoFrame]

\* no DSP effect instantiated yet: no buffer
NoDelayLines ==
    [effect |-> "none", SampleRate |-> 0, Saturating |-> FALSE, Size |-> <<>>,
     WriteIndex |-> <<>>, WriteAt |-> <<>>, ReadAt |-> <<>>, Samples |-> 0]

\* the submix effects as constructed, with no call in progress
ConstructedEffects ==
    /\ Preset = DefaultReverbSettings
    /\ reverb = ConstructedReverb
    /\ audio = IdleAudio
    /\ writer = IdleWriter
    /\ master = ConstructedMaster
    /\ delay = NoDelayLines

Abs(x) == IF x < 0 THEN -x ELSE x

CeilDiv(a, b) == (a + b - 1) \div b

\* "SmoothedOutputGain = GainSmoothCoeff * SmoothedOutputGain +
\* (1 - GainSmoothCoeff) * TargetGain"
SmoothGain(SmoothedOutputGain, TargetGain) ==
    IF TargetGain >= SmoothedOutputGain
    THEN SmoothedOutputGain + CeilDiv(TargetGain - SmoothedOutputGain, GainSmoothDiv)
    ELSE SmoothedOutputGain - CeilDiv(SmoothedOutputGain - TargetGain, GainSmoothDiv)

\* the envelope follower: attack towards a louder peak, release otherwise
EnvelopeFollower(LimiterEnvelope, MaxAbs) ==
    IF MaxAbs > LimiterEnvelope
    THEN LimiterEnvelope + CeilDiv(MaxAbs - LimiterEnvelope, AttackDiv)
    ELSE LimiterEnvelope - CeilDiv(LimiterEnvelope - MaxAbs, ReleaseDiv)

\* "LimiterGain = LimiterThreshold / LimiterEnvelope" above the threshold,
\* 1 otherwise
GainReduction(LimiterEnvelope, LimiterThreshold) ==
    IF LimiterEnvelope > LimiterThreshold
    THEN (LimiterThreshold * GainScale) \div LimiterEnvelope
    ELSE GainScale

\* "In * FinalGain", FinalGain = SmoothedOutputGain * LimiterGain
ApplyGain(In, SmoothedOutputGain, LimiterEnvelope, LimiterThreshold) ==
    LET a == (Abs(In) * SmoothedOutputGain) \div GainScale
        b == IF LimiterEnvelope > LimiterThreshold
             THEN (a * LimiterThreshold) \div LimiterEnvelope
             ELSE a
    IN  IF In < 0 THEN -b ELSE b

\* one frame of OnProcessAudio on the effect m
ProcessFrame(m, In) ==
    IF ~m.CurrentSettings.bEnabled
    THEN [m EXCEPT !.Frame = [In |-> In, Out |-> In, bEnabled |-> FALSE,
                              LimiterThreshold |-> m.Frame.LimiterThreshold]]
    ELSE LET LimiterThreshold == DbToAmplitude(m.CurrentSettings.LimiterThresholdDb)
             gain == SmoothGain(m.SmoothedOutputGain, GainScale)
             MaxAbs == (Abs(In) * gain) \div GainScale
             env == EnvelopeFollower(m.LimiterEnvelope, MaxAbs)
         IN  [m EXCEPT !.SmoothedOutputGain = gain,
                       !.LimiterEnvelope = env,
                       !.LimiterGain = GainReduction(env, LimiterThreshold),
                       !.Frame = [In |-> In,
                                  Out |-> ApplyGain(In, gain, env, LimiterThreshold),
                                  bEnabled |-> TRUE,
                                  LimiterThreshold |-> LimiterThreshold]]

\* FAcousticMasterEffect::OnPresetChanged
MasterPresetChanged(NewSettings) ==
    /\ master' = [master EXCEPT !.CurrentSettings = NewSettings]
    /\ UNCHANGED <<Preset, reverb, audio, writer, delay, notDspVars>>

\* FAcousticMasterEffect::OnProcessAudio, a block of one frame
MasterProcessAudio(In) ==
    /\ master' = ProcessFrame(master, In)
    /\ UNCHANGED <<Preset, reverb, audio, writer, delay, notDspVars>>

(***************************************************************************)
(* The delay lines of the DSP effects                                      *)
(*                                                                         *)
(* delay follows one effect instance sample by sample: the sizes of its    *)
(* circular buffers, their write indices, and the indices the latest       *)
(* sample wrote (WriteAt) and read (ReadAt), each with its buffer.  The    *)
(* sample values do not influence any index and are left out.              *)
(***************************************************************************)
Int32Max == 2147483647
Int32Min == -Int32Max - 1

\* a setting so large (1e30f) that its product with the sample rate is
\* outside int32
Huge == Int32Max

\* C's %: the remainder has the sign of the dividend
CMod(a, b) == IF a >= 0 THEN a % b ELSE -((-a) % b)

\* FMath::RoundToInt(Setting * num / den) = floor(x + 0.5).  For a Huge
\* setting the float-to-int conversion is out of range: the build gives
\* INT_MIN (x86 cvtss2si) or saturates (ARM)
RoundToInt(Setting, num, den, Saturating) ==
    IF Setting = Huge THEN (IF Saturating THEN Int32Max ELSE Int32Min)
    ELSE (2 * Setting * num + den) \div (2 * den)

\* mutant: the read index without the buffer size added before the modulo
DelayReadIndex_NoWrap(WriteIndex, DelaySamples, Num) ==
    CMod(WriteIndex - DelaySamples, Num)

\* "(WriteIndex - DelaySamples + Buffer.Num()) % Buffer.Num()"
DelayReadIndex(WriteIndex, DelaySamples, Num) ==
    CMod(WriteIndex - DelaySamples + Num, Num)

\* "(WriteIndex + 1) % BufferSize"
NextIndex(WriteIndex, Num) == CMod(WriteIndex + 1, Num)

\* InitializeDSP: EarlyTaps[i].DelayMs, in 0.1 ms
TapDelays == <<53, 79, 112, 164, 221, 297, 385, 498>>
\* InitializeDSP: DiffuserDelays and TankDelays, in samples
DiffuserDelays == <<142, 107, 379, 277>>
TankDelays == <<1557, 1617, 1491, 1422>>

\* FAcousticZoneReverbEffect::Init and InitializeDSP: buffer 1 is the
\* pre-delay line, 2..5 the allpass diffusers, 6..9 the FDN tanks
ReverbInitResult(SampleRate, NumChannels, Saturating) ==
    [effect |-> "reverb", SampleRate |-> SampleRate, Saturating |-> Saturating,
     Size |-> <<CeilDiv(SampleRate, 10) * NumChannels>>
              \o [i \in 1..4 |-> DiffuserDelays[i] * NumChannels]
              \o [i \in 1..4 |-> CeilDiv(TankDelays[i] * (SampleRate \div 100), 441)
                                    * NumChannels],
     WriteIndex |-> [i \in 1..9 |-> 0],
     WriteAt |-> <<>>, ReadAt |-> <<>>, Samples |-> 0]

\* ProcessEarlyReflectionsSample: the pre-delay line.  PreDelayMs in ms,
\* RoomSize in tenths
ProcessEarlyReflectionsSample(d, PreDelayMs, RoomSize) ==
    LET Num == d.Size[1]
        W == d.WriteIndex[1]
        PreDelaySamples ==
            Clamp(RoundToInt(PreDelayMs, d.SampleRate, 1000, d.Saturating), 1, Num - 1)
        ReadIndex == DelayReadIndex(W, PreDelaySamples, Num)
        PreDelayWriteIndex == NextIndex(W, Num)
        TapDelaySamples(i) ==
            Clamp(RoundToInt(RoomSize, TapDelays[i] * (d.SampleRate \div 100), 1000,
                             d.Saturating), 1, Num - 1)
    IN  [d EXCEPT !.WriteIndex[1] = PreDelayWriteIndex,
                  !.WriteAt = <<<<1, W>>>>,
                  !.ReadAt = <<<<1, ReadIndex>>>>
                     \o [i \in 1..8 |->
                           <<1, DelayReadIndex(PreDelayWriteIndex, TapDelaySamples(i), Num)>>]]

\* ProcessLateReverbSample: the diffusers and the tanks, each read one slot
\* ahead of its write index; a buffer of size 0 is skipped
ProcessLateReverbSample(d) ==
    LET Used == {b \in 2..9 : d.Size[b] > 0}
        Lines == SelectSeq([i \in 1..8 |-> i + 1], LAMBDA b : b \in Used)
    IN  [d EXCEPT !.WriteIndex = [b \in 1..9 |->
                                     IF b \in Used THEN NextIndex(d.WriteIndex[b], d.Size[b])
                                     ELSE d.WriteIndex[b]],
                  !.WriteAt = @ \o [k \in 1..Len(Lines) |->
                                      <<Lines[k], d.WriteIndex[Lines[k]]>>],
                  !.ReadAt = @ \o [k \in 1..Len(Lines) |->
                                     <<Lines[k], NextIndex(d.WriteIndex[Lines[k]],
                                                           d.Size[Lines[k]])>>]]

\* FHeadphoneCrossfeedEffect::Init: the two crossfeed lines share one index
CrossfeedInitResult(SampleRate, Saturating) ==
    [effect |-> "crossfeed", SampleRate |-> SampleRate, Saturating |-> Saturating,
     Size |-> [i \in 1..2 |-> CeilDiv(SampleRate * 5, 10000)],
     WriteIndex |-> [i \in 1..2 |-> 0],
     WriteAt |-> <<>>, ReadAt |-> <<>>, Samples |-> 0]

\* FHeadphoneCrossfeedEffect::OnProcessAudio, one stereo frame with the
\* effect enabled.  CrossfeedDelayUs in microseconds
CrossfeedFrame(d, CrossfeedDelayUs) ==
    LET Num == d.Size[1]
        W == d.WriteIndex[1]
        DelaySamples ==
            Clamp(RoundToInt(CrossfeedDelayUs, d.SampleRate \div 100, 10000,
                             d.Saturating), 1, Num - 1)
        ReadIndex == DelayReadIndex(W, DelaySamples, Num)
    IN  [d EXCEPT !.WriteIndex = [i \in 1..2 |-> NextIndex(W, Num)],
                  !.WriteAt = <<<<1, W>>, <<2, W>>>>,
                  !.ReadAt = <<<<1, ReadIndex>>, <<2, ReadIndex>>>>]

\* FAcousticSpatialWidthOperator, the constructor: ~20 ms of delay
SpatialWidthInitResult(SampleRate, Saturating) ==
    [effect |-> "width", SampleRate |-> SampleRate, Saturating |-> Saturating,
     Size |-> [i \in 1..2 |-> CeilDiv(SampleRate * 2, 100)],
     WriteIndex |-> [i \in 1..2 |-> 0],
     WriteAt |-> <<>>, ReadAt |-> <<>>, Samples |-> 0]

\* FAcousticSpatialWidthOperator::Execute, one sample: DelayL is 7.3 ms and
\* DelayR 11.7 ms, neither clamped
SpatialWidthSample(d) ==
    LET Num == d.Size[1]
        W == d.WriteIndex[1]
        DelayL == RoundToInt(73, d.SampleRate \div 100, 100, d.Saturating)
        DelayR == RoundToInt(117, d.SampleRate \div 100, 100, d.Saturating)
    IN  [d EXCEPT !.WriteIndex = [i \in 1..2 |-> NextIndex(W, Num)],
                  !.WriteAt = <<<<1, W>>, <<2, W>>>>,
                  !.ReadAt = <<<<1, DelayReadIndex(W, DelayL, Num)>>,
                               <<2, DelayReadIndex(W, DelayR, Num)>>>>]

\* an effect instance is followed until its first buffer has wrapped around
\* and for ExtraSamples samples more
ExtraSamples == 100
MaxSamples(d) == d.Size[1] + ExtraSamples

\* Init of one of the effects, on a device of SampleRate Hz
DelayInit(d) ==
    /\ delay = NoDelayLines
    /\ delay' = d
    /\ UNCHANGED <<Preset, reverb, audio, writer, master, notDspVars>>

\* FAcousticZoneReverbEffect::OnProcessAudio, a block of one frame
ReverbProcessSample(PreDelayMs, RoomSize) ==
    /\ delay.effect = "reverb"
    /\ delay.Samples < MaxSamples(delay)
    /\ delay' = [ProcessLateReverbSample(
                    ProcessEarlyReflectionsSample(delay, PreDelayMs, RoomSize))
                 EXCEPT !.Samples = delay.Samples + 1]
    /\ UNCHANGED <<Preset, reverb, audio, writer, master, notDspVars>>

\* FHeadphoneCrossfeedEffect::OnProcessAudio, a block of one stereo frame
CrossfeedProcessSample(CrossfeedDelayUs) ==
    /\ delay.effect = "crossfeed"
    /\ delay.Samples < MaxSamples(delay)
    /\ delay' = [CrossfeedFrame(delay, CrossfeedDelayUs)
                 EXCEPT !.Samples = delay.Samples + 1]
    /\ UNCHANGED <<Preset, reverb, audio, writer, master, notDspVars>>

\* FAcousticSpatialWidthOperator::Execute on a buffer of one sample
SpatialWidthExecute ==
    /\ delay.effect = "width"
    /\ delay.Samples < MaxSamples(delay)
    /\ delay' = [SpatialWidthSample(delay) EXCEPT !.Samples = delay.Samples + 1]
    /\ UNCHANGED <<Preset, reverb, audio, writer, master, notDspVars>>

(***************************************************************************)
(* Source management                                                       *)
(***************************************************************************)
\* bound on the source IDs handed out (NextSourceId never exceeds it by more
\* than one)
MaxSourceId == 4

\* the entries that hold the handle c ("Check if already registered")
EntriesOf(c) == {id \in Ids : RegisteredSources[id].SourceComponent = c}
IsRegistered(c) == EntriesOf(c) # {}
ExistingId(c) == CHOOSE id \in EntriesOf(c) : \A o \in EntriesOf(c) : id <= o

\* mutant: the search for an existing entry is skipped
AlreadyRegistered_Never(c) == FALSE

\* RegisterSource: the loop that looks for an entry of the same component
AlreadyRegistered(c) == IsRegistered(c)

\* mutant: a new entry takes the lowest ID that no entry holds
RegisterSourceResult_ReuseId(c) ==
    LET free == CHOOSE n \in 1..(NextSourceId + 1) :
                   /\ n \notin Ids
                   /\ \A m \in 1..(n - 1) : m \in Ids
    IN  IF c = NoComp
        THEN [id |-> -1, regs |-> RegisteredSources, next |-> NextSourceId]
        ELSE IF AlreadyRegistered(c)
        THEN [id |-> ExistingId(c), regs |-> RegisteredSources, next |-> NextSourceId]
        ELSE [id |-> free,
              regs |-> [i \in Ids \cup {free} |->
                          IF i = free THEN NewEntry(c, free)
                          ELSE RegisteredSources[i]],
              next |-> Max(NextSourceId, free + 1)]

\* mutant: the null handle is given an ID like a component
RegisterSourceResult_NullGetsId(c) ==
    IF c = NoComp
    THEN [id |-> NextSourceId, regs |-> RegisteredSources, next |-> NextSourceId + 1]
    ELSE IF AlreadyRegistered(c)
    THEN [id |-> ExistingId(c), regs |-> RegisteredSources, next |-> NextSourceId]
    ELSE [id |-> NextSourceId,
          regs |-> [i \in Ids \cup {NextSourceId} |->
                      IF i = NextSourceId THEN NewEntry(c, NextSourceId)
                      ELSE RegisteredSources[i]],
          next |-> NextSourceId + 1]

\* RegisterSource(Source) for a live component c, or for the null handle
\* NoComp: the ID returned, the registry and the next ID after the call
RegisterSourceResult(c) ==
    IF c = NoComp
    THEN [id |-> -1, regs |-> RegisteredSources, next |-> NextSourceId]
    ELSE IF AlreadyRegistered(c)
    THEN [id |-> ExistingId(c), regs |-> RegisteredSources, next |-> NextSourceId]
    ELSE [id |-> NextSourceId,
          regs |-> [i \in Ids \cup {NextSourceId} |->
                      IF i = NextSourceId THEN NewEntry(c, NextSourceId)
                      ELSE RegisteredSources[i]],
          next |-> NextSourceId + 1]

\* a direct call of UAcousticEngineSubsystem::RegisterSource(c)
RegisterSource(c) ==
    /\ pc = "idle"
    /\ IsLive(c)
    /\ LET r == RegisterSourceResult(c)
       IN  /\ r.id <= MaxSourceId
           /\ RegisteredSources' = r.regs
           /\ NextSourceId' = r.next
    /\ UNCHANGED <<Settings, comp, CurrentBudget, OcclusionUpdateAccumulator,
                   ReflectionUpdateAccumulator, ZoneUpdateAccumulator, now, pc,
                   iter, probe,
                   worldVars, eventVars, dspVars, net>>

\* a direct call of RegisterSource whose caller keeps the returned ID; Source
\* is a live component or the null handle
RegisterSourceCall(c) ==
    /\ pc = "idle"
    /\ IF c = NoComp THEN TRUE ELSE IsLive(c)
    /\ LET r == RegisterSourceResult(c)
       IN  /\ r.id <= MaxSourceId
           /\ RegisteredSources' = r.regs
           /\ NextSourceId' = r.next
           /\ probe' = [phase |-> "RegisterSource", Source |-> c, id |-> r.id]
    /\ UNCHANGED <<Settings, comp, CurrentBudget, OcclusionUpdateAccumulator,
                   ReflectionUpdateAccumulator, ZoneUpdateAccumulator, now, pc,
                   iter, worldVars, eventVars, dspVars, net>>

\* mutant: a lookup that fails resets the caller's parameters
GetSourceParams_ResetsOutput(SourceId, OutParams) ==
    IF SourceId \in Ids
    THEN [found |-> TRUE, OutParams |-> RegisteredSources[SourceId].CurrentParams]
    ELSE [found |-> FALSE, OutParams |-> ResetParams]

\* GetSourceParams(SourceId, OutParams): the value returned and the caller's
\* OutParams after the call
GetSourceParams(SourceId, OutParams) ==
    IF SourceId \in Ids
    THEN [found |-> TRUE, OutParams |-> RegisteredSources[SourceId].CurrentParams]
    ELSE [found |-> FALSE, OutParams |-> OutParams]

\* mutant: the update times are set to the present instead of forgotten
ForceSourceUpdate_Refresh(id) ==
    /\ pc = "idle"
    /\ RegisteredSources' =
          IF id \in Ids
          THEN [RegisteredSources EXCEPT ![id].LastOcclusionUpdateTime = now,
                                         ![id].LastReflectionUpdateTime = now]
          ELSE RegisteredSources
    /\ UNCHANGED <<Settings, comp, NextSourceId, CurrentBudget,
                   OcclusionUpdateAccumulator, ReflectionUpdateAccumulator,
                   ZoneUpdateAccumulator, now, pc, iter, probe,
                   worldVars, eventVars, dspVars, net>>

\* ForceSourceUpdate(SourceId): both update times of the entry, if there is
\* one, go back to 0
ForceSourceUpdate(id) ==
    /\ pc = "idle"
    /\ RegisteredSources' =
          IF id \in Ids
          THEN [RegisteredSources EXCEPT ![id].LastOcclusionUpdateTime = 0,
                                         ![id].LastReflectionUpdateTime = 0]
          ELSE RegisteredSources
    /\ UNCHANGED <<Settings, comp, NextSourceId, CurrentBudget,
                   OcclusionUpdateAccumulator, ReflectionUpdateAccumulator,
                   ZoneUpdateAccumulator, now, pc, iter, probe,
                   worldVars, eventVars, dspVars, net>>

\* UAcousticSourceComponent::RegisterWithEngine (BeginPlay)
RegisterWithEngine(c) ==
    /\ pc = "idle"
    /\ IsLive(c)
    /\ IF comp[c].bIsRegistered
       THEN UNCHANGED <<comp, RegisteredSources, NextSourceId>>
       ELSE LET r == RegisterSourceResult(c)
            IN  /\ r.id <= MaxSourceId
                /\ RegisteredSources' = r.regs
                /\ NextSourceId' = r.next
                /\ comp' = [comp EXCEPT ![c].SourceId = r.id,
                                        ![c].bIsRegistered = (r.id >= 0)]
    /\ UNCHANGED <<Settings, CurrentBudget, OcclusionUpdateAccumulator,
                   ReflectionUpdateAccumulator, ZoneUpdateAccumulator, now, pc,
                   iter, probe,
                   worldVars, eventVars, dspVars, net>>

\* RegisteredSources.Remove(SourceId)
RemoveSource(regs, id) == [i \in (DOMAIN regs) \ {id} |-> regs[i]]

\* a direct call of UAcousticEngineSubsystem::UnregisterSource(id)
UnregisterSource(id) ==
    /\ pc = "idle"
    /\ RegisteredSources' = RemoveSource(RegisteredSources, id)
    /\ UNCHANGED <<Settings, comp, NextSourceId, CurrentBudget,
                   OcclusionUpdateAccumulator, ReflectionUpdateAccumulator,
                   ZoneUpdateAccumulator, now, pc, iter, probe,
                   worldVars, eventVars, dspVars, net>>

\* UAcousticSourceComponent::UnregisterFromEngine (EndPlay)
UnregisterFromEngine(c) ==
    /\ pc = "idle"
    /\ IsLive(c)
    /\ comp[c].bIsRegistered
    /\ RegisteredSources' = RemoveSource(RegisteredSources, comp[c].SourceId)
    /\ comp' = [comp EXCEPT ![c].SourceId = -1, ![c].bIsRegistered = FALSE]
    /\ UNCHANGED <<Settings, NextSourceId, CurrentBudget,
                   OcclusionUpdateAccumulator, ReflectionUpdateAccumulator,
                   ZoneUpdateAccumulator, now, pc, iter, probe,
                   worldVars, eventVars, dspVars, net>>

(***************************************************************************)
(* The host engine destroys a component                                    *)
(***************************************************************************)
\* EndPlay runs UnregisterFromEngine, then the object is gone and the weak
\* pointers to it read null.  An entry made by a direct RegisterSource call
\* (bIsRegistered still false) is left behind
DestroyComponent(c) ==
    /\ pc = "idle"
    /\ IsLive(c)
    /\ RegisteredSources' =
          IF comp[c].bIsRegistered
          THEN RemoveSource(RegisteredSources, comp[c].SourceId)
          ELSE RegisteredSources
    /\ comp' = [comp EXCEPT ![c].life = "dead", ![c].SourceId = -1,
                            ![c].bIsRegistered = FALSE]
    /\ UNCHANGED <<Settings, NextSourceId, CurrentBudget,
                   OcclusionUpdateAccumulator, ReflectionUpdateAccumulator,
                   ZoneUpdateAccumulator, now, pc, iter, probe,
                   worldVars, eventVars, dspVars, net>>

(***************************************************************************)
(* Listeners and zones                                                     *)
(***************************************************************************)
NoZoneHandle == 0

\* TWeakObjectPtr<AAcousticZoneVolume>::Get() != nullptr
ZoneIsLive(z) == zone[z].life = "alive"

\* AAcousticZoneVolume::ContainsPoint, for a volume that is an interval
ContainsPoint(z, Location) == zone[z].Lo <= Location /\ Location <= zone[z].Hi

\* mutant: a zone of equal priority replaces the best one found so far
BetterZone_OrEqual(Priority, BestPriority) == Priority >= BestPriority

\* GetZoneAtLocation: "Zone->Priority > BestPriority"
BetterZone(Priority, BestPriority) == Priority > BestPriority

\* GetZoneAtLocation: "if (AAcousticZoneVolume* Zone = ZonePtr.Get())"
ZoneUsable(z) == ZoneIsLive(z)

\* GetZoneAtLocation: the loop over RegisteredZones from index k on, with the
\* best zone found so far (BestPriority starts at INT_MIN: the first
\* containing zone always replaces "none")
RECURSIVE ZoneScan(_, _, _, _)
ZoneScan(zones, k, Location, BestZone) ==
    IF k > Len(zones) THEN BestZone
    ELSE LET z == zones[k]
             take == /\ ZoneUsable(z)
                     /\ ContainsPoint(z, Location)
                     /\ \/ BestZone = NoZoneHandle
                        \/ BetterZone(zone[z].Priority, zone[BestZone].Priority)
         IN  ZoneScan(zones, k + 1, Location, IF take THEN z ELSE BestZone)

GetZoneAtLocation(Location) == ZoneScan(RegisteredZones, 1, Location, NoZoneHandle)

\* UpdateListener: the array grows to hold the index, the element is replaced
UpdateListener(listeners, ListenerIndex, ListenerData) ==
    [i \in 1..Max(Len(listeners), ListenerIndex) |->
        IF i = ListenerIndex THEN ListenerData
        ELSE IF i <= Len(listeners) THEN listeners[i]
        ELSE DefaultListenerData]

\* UpdateListenersFromPlayers: Views holds the view point of each local
\* player controller; a fresh FAcousticListenerData is filled in for each and
\* handed to UpdateListener
RECURSIVE UpdateListenersFromPlayers(_, _, _)
UpdateListenersFromPlayers(listeners, Views, k) ==
    IF k > Len(Views) THEN listeners
    ELSE UpdateListenersFromPlayers(
            UpdateListener(listeners, k,
                           [DefaultListenerData EXCEPT !.Location = Views[k]]),
            Views, k + 1)

\* UpdateListenerZones: the zone ID a listener is in now
NewZoneIdOf(Listener) ==
    LET z == GetZoneAtLocation(Listener.Location)
    IN  IF z = NoZoneHandle THEN -1 ELSE zone[z].ZoneId

\* UpdateListenerZones: the listener array it leaves
UpdateListenerZones(listeners) ==
    [i \in 1..Len(listeners) |->
        [listeners[i] EXCEPT !.CurrentZoneId = NewZoneIdOf(listeners[i])]]

\* UpdateListenerZones: the broadcasts it makes, in the order of the listeners
RECURSIVE ZoneChangedBroadcasts(_, _)
ZoneChangedBroadcasts(listeners, k) ==
    IF k > Len(listeners) THEN <<>>
    ELSE LET NewZoneId == NewZoneIdOf(listeners[k])
             OldZoneId == listeners[k].CurrentZoneId
         IN  (IF NewZoneId # OldZoneId
              THEN <<[ListenerIndex |-> k - 1, OldZoneId |-> OldZoneId,
                      NewZoneId |-> NewZoneId]>>
              ELSE <<>>) \o ZoneChangedBroadcasts(listeners, k + 1)

(***************************************************************************)
(* AAcousticZoneVolume: the life of a zone actor                           *)
(***************************************************************************)
notZoneVars == <<engineVars, probe, portal, NextPortalId, eventVars, dspVars, net>>

\* RegisterZone: "if (Zone && !RegisteredZones.Contains(Zone)) Add"
RegisterZoneResult(zones, z) ==
    IF \E i \in 1..Len(zones) : zones[i] = z THEN zones ELSE Append(zones, z)

\* UnregisterZone: RegisteredZones.Remove(Zone)
UnregisterZoneResult(zones, z) == SelectSeq(zones, LAMBDA x : x # z)

\* the constructor (with the properties the level gives the actor):
\* "ZoneId = NextZoneId++"; Send is the DefaultReverbSend that
\* ApplyZoneTypePreset writes for the zone type the level chose
ConstructZoneOfType(z, Priority, Lo, Hi, Send) ==
    /\ pc = "idle"
    /\ zone[z].life = "none"
    /\ zone' = [zone EXCEPT ![z] = [life |-> "alive", ZoneId |-> NextZoneId,
                                    Priority |-> Priority, Lo |-> Lo, Hi |-> Hi,
                                    bHasBegunPlay |-> FALSE,
                                    DefaultReverbSend |-> Send]]
    /\ NextZoneId' = NextZoneId + 1
    /\ UNCHANGED <<RegisteredZones, notZoneVars>>

\* a zone of the type Default: DefaultReverbSend = 0.3f
ConstructZone(z, Priority, Lo, Hi) ==
    ConstructZoneOfType(z, Priority, Lo, Hi, DefaultReverbSend)

\* BeginPlay: RegisterWithEngine
ZoneBeginPlay(z) ==
    /\ pc = "idle"
    /\ ZoneIsLive(z) /\ ~zone[z].bHasBegunPlay
    /\ zone' = [zone EXCEPT ![z].bHasBegunPlay = TRUE]
    /\ RegisteredZones' = RegisterZoneResult(RegisteredZones, z)
    /\ UNCHANGED <<NextZoneId, notZoneVars>>

\* a direct call of the subsystem's RegisterZone
RegisterZone(z) ==
    /\ pc = "idle"
    /\ ZoneIsLive(z)
    /\ RegisteredZones' = RegisterZoneResult(RegisteredZones, z)
    /\ UNCHANGED <<zone, NextZoneId, notZoneVars>>

\* a direct call of the subsystem's UnregisterZone
UnregisterZone(z) ==
    /\ pc = "idle"
    /\ ZoneIsLive(z)
    /\ RegisteredZones' = UnregisterZoneResult(RegisteredZones, z)
    /\ UNCHANGED <<zone, NextZoneId, notZoneVars>>

\* the actor is destroyed: EndPlay (UnregisterFromEngine) runs if the actor
\* has begun play, then the object is gone and weak pointers to it are stale
DestroyZone(z) ==
    /\ pc = "idle"
    /\ ZoneIsLive(z)
    /\ zone' = [zone EXCEPT ![z].life = "dead"]
    /\ RegisteredZones' = IF zone[z].bHasBegunPlay
                          THEN UnregisterZoneResult(RegisteredZones, z)
                          ELSE RegisteredZones
    /\ UNCHANGED <<NextZoneId, notZoneVars>>

(***************************************************************************)
(* AAcousticPortalVolume                                                   *)
(***************************************************************************)
\* Openness is counted in steps of 1/OpennessScale
OpennessScale == 8

notPortalVars == <<engineVars, probe, zone, RegisteredZones, NextZoneId, eventVars,
                   dspVars, net>>

\* the constructor: open, Openness 1, tick disabled, "PortalId = NextPortalId++"
ConstructPortal(p, TransitionTime) ==
    /\ pc = "idle"
    /\ portal[p].life = "none"
    /\ portal' = [portal EXCEPT ![p] =
                     [life |-> "alive", PortalId |-> NextPortalId, bIsOpen |-> TRUE,
                      Openness |-> OpennessScale, TargetOpenness |-> OpennessScale,
                      TransitionTime |-> TransitionTime, TickEnabled |-> FALSE]]
    /\ NextPortalId' = NextPortalId + 1
    /\ UNCHANGED notPortalVars

\* SetOpen(bOpen)
SetOpen(p, bOpen) ==
    /\ pc = "idle"
    /\ portal[p].life = "alive"
    /\ LET target == IF bOpen THEN OpennessScale ELSE 0
       IN  portal' = [portal EXCEPT
              ![p].bIsOpen = bOpen,
              ![p].TargetOpenness = target,
              ![p].TickEnabled = IF portal[p].TransitionTime > 0 THEN TRUE ELSE @,
              ![p].Openness = IF portal[p].TransitionTime > 0 THEN @ ELSE target]
    /\ UNCHANGED <<NextPortalId, notPortalVars>>

\* SetOpenness: FMath::Clamp(NewOpenness, 0.0f, 1.0f)
ClampOpenness(NewOpenness) == Clamp(NewOpenness, 0, OpennessScale)

\* "Openness > 0.5f"
MoreThanHalfOpen(Openness) == 2 * Openness > OpennessScale

\* SetOpenness(NewOpenness)
SetOpenness(p, NewOpenness) ==
    /\ pc = "idle"
    /\ portal[p].life = "alive"
    /\ LET o == ClampOpenness(NewOpenness)
       IN  portal' = [portal EXCEPT ![p].Openness = o,
                                    ![p].TargetOpenness = o,
                                    ![p].bIsOpen = MoreThanHalfOpen(o)]
    /\ UNCHANGED <<NextPortalId, notPortalVars>>

\* a transition that always runs at the rate of 100 per second
TransitionStep_FixedRate(TransitionTime, DeltaTime) ==
    (OpennessScale * 100 * DeltaTime) \div 60

\* UpdateTransition: Rate * DeltaTime, with TransitionTime and DeltaTime in
\* frames (Rate is 100 per second when TransitionTime is 0)
TransitionStep(TransitionTime, DeltaTime) ==
    IF TransitionTime > 0 THEN (OpennessScale * DeltaTime) \div TransitionTime
    ELSE (OpennessScale * 100 * DeltaTime) \div 60

\* Tick(DeltaTime) of a portal whose tick is enabled: UpdateTransition
PortalTick(p, DeltaTime) ==
    /\ pc = "idle"
    /\ portal[p].life = "alive"
    /\ portal[p].TickEnabled
    /\ LET q == portal[p]
           d == TransitionStep(q.TransitionTime, DeltaTime)
       IN  portal' = [portal EXCEPT ![p] =
              IF q.Openness = q.TargetOpenness
              THEN [q EXCEPT !.TickEnabled = FALSE]
              ELSE IF q.Openness < q.TargetOpenness
                   THEN [q EXCEPT !.Openness = Min(q.Openness + d, q.TargetOpenness)]
                   ELSE [q EXCEPT !.Openness = Max(q.Openness - d, q.TargetOpenness)]]
    /\ UNCHANGED <<NextPortalId, notPortalVars>>

\* the location the passes measure from: ListenerDataArray[0].Location
ListenerLocation(listeners) == listeners[1].Location

\* FVector::Dist on the line
Dist(a, b) == IF a >= b THEN a - b ELSE b - a

(***************************************************************************)
(* UpdateSourcePriorities                                                  *)
(***************************************************************************)
\* first loop: distance and priority score of every entry with a live
\* component; the other entries are skipped
ScoreSources(regs, listeners) ==
    [id \in DOMAIN regs |->
        LET e == regs[id]
            c == e.SourceComponent
            d == Dist(comp[c].Location, ListenerLocation(listeners))
        IN  IF ~IsLive(c) THEN e
            ELSE [e EXCEPT
                    !.CurrentParams.Distance = Max(d, MinDistance),
                    !.PriorityScore = ComputePriorityScore(comp[c], d)]]

\* the IDs collected into SortedSources
LiveIds(regs) == {id \in DOMAIN regs : IsLive(regs[id].SourceComponent)}

\* the orders Sort may leave SortedSources in: highest score first, entries of
\* equal score in any order (TArray::Sort is not stable)
SortedOrders(regs) ==
    LET S == LiveIds(regs)
        n == Cardinality(S)
    IN  {o \in [1..n -> S] :
           /\ \A i, j \in 1..n : i # j => o[i] # o[j]
           /\ \A i \in 1..n : \A j \in 1..n :
                 i < j => regs[o[i]].PriorityScore >= regs[o[j]].PriorityScore}

\* mutant: the test against OffLODDistance is missing
DistanceLOD_NoOffDistance(desired, Distance) ==
    IF Distance > Settings.BasicLODDistance /\ desired > Basic THEN Basic
    ELSE desired

\* "Distance-based downgrade"
DistanceLOD(desired, Distance) ==
    IF Distance > Settings.OffLODDistance THEN Off
    ELSE IF Distance > Settings.BasicLODDistance /\ desired > Basic THEN Basic
    ELSE desired

\* "Budget-based downgrade", Hero: the LOD and the Hero count afterwards
AfterHeroCap(lod, HeroCount) ==
    IF lod = Hero
    THEN IF HeroCount >= Settings.MaxHeroSources
         THEN [lod |-> Advanced, hero |-> HeroCount]
         ELSE [lod |-> Hero, hero |-> HeroCount + 1]
    ELSE [lod |-> lod, hero |-> HeroCount]

\* "Budget-based downgrade", Advanced: the LOD and the Advanced count afterwards
AfterAdvancedCap(lod, AdvancedCount) ==
    IF lod = Advanced
    THEN IF AdvancedCount >= Settings.MaxAdvancedSources
         THEN [lod |-> Basic, adv |-> AdvancedCount]
         ELSE [lod |-> Advanced, adv |-> AdvancedCount + 1]
    ELSE [lod |-> lod, adv |-> AdvancedCount]

\* second loop, over the sorted order from position k on
RECURSIVE AssignLODs(_, _, _, _, _)
AssignLODs(regs, order, k, HeroCount, AdvancedCount) ==
    IF k > Len(order) THEN regs
    ELSE LET id == order[k]
             e == regs[id]
             d == DistanceLOD(comp[e.SourceComponent].AcousticLOD,
                              e.CurrentParams.Distance)
             h == AfterHeroCap(d, HeroCount)
             a == AfterAdvancedCap(h.lod, AdvancedCount)
         IN  AssignLODs([regs EXCEPT ![id].EffectiveLOD = a.lod,
                                     ![id].bIsAudible = (a.lod # Off)],
                        order, k + 1, h.hero, a.adv)

\* GetNumActiveSources: the entries flagged audible
GetNumActiveSources ==
    Cardinality({id \in Ids : RegisteredSources[id].bIsAudible})

(***************************************************************************)
(* ProcessAcousticUpdate, as the steps of one tick                         *)
(***************************************************************************)
\* mutant: a pass is due only when the accumulator exceeds the interval
ReflectionDue_Strict(acc) == acc > Settings.ReflectionInterval

OcclusionDue(acc) == acc >= Settings.OcclusionInterval
ReflectionDue(acc) == acc >= Settings.ReflectionInterval
ZoneDue(acc) == acc >= Settings.ZoneInterval

\* what a handler bound to OnAcousticZoneChanged or OnAcousticParamsUpdated
\* does to the registry when it calls UnregisterSource(id); id 0 stands for
\* a handler that does not call it
NoSourceId == 0
HandlerUnregisters(regs, id) ==
    IF id = NoSourceId THEN regs ELSE RemoveSource(regs, id)

\* Tick(DeltaTime) up to the first pass over the registry: the listeners are
\* refreshed from the local player controllers (Views), the budget is reset,
\* the accumulators advance, UpdateSourcePriorities runs and the listener
\* zones are refreshed when due; a handler of OnAcousticZoneChanged, run by
\* the broadcast inside UpdateListenerZones, calls UnregisterSource(Unreg)
TickBeginHandled(DeltaTime, Views, Unreg) ==
    /\ pc = "idle"
    /\ now + DeltaTime <= MaxTime
    /\ now' = now + DeltaTime
    /\ CurrentBudget' = [OcclusionRays |-> 0, ReflectionRays |-> 0,
                         TotalRaysUsed |-> 0,
                         TotalRaysBudget |-> Settings.MaxRaysPerFrame]
    /\ OcclusionUpdateAccumulator' = OcclusionUpdateAccumulator + DeltaTime
    /\ ReflectionUpdateAccumulator' = ReflectionUpdateAccumulator + DeltaTime
    /\ ZoneUpdateAccumulator' =
          IF ZoneDue(ZoneUpdateAccumulator + DeltaTime) THEN 0
          ELSE ZoneUpdateAccumulator + DeltaTime
    /\ \E listeners \in {UpdateListenersFromPlayers(ListenerDataArray, Views, 1)} :
       \E scored \in {ScoreSources(RegisteredSources, listeners)} :
       \E broadcasts \in {IF ZoneDue(ZoneUpdateAccumulator + DeltaTime)
                           THEN ZoneChangedBroadcasts(listeners, 1) ELSE <<>>} :
           /\ Unreg # NoSourceId => (broadcasts # <<>> /\ Unreg \in Ids)
           /\ \E order \in SortedOrders(scored) :
                 RegisteredSources' =
                    HandlerUnregisters(AssignLODs(scored, order, 1, 0, 0), Unreg)
           /\ IF ZoneDue(ZoneUpdateAccumulator + DeltaTime)
              THEN ListenerDataArray' = UpdateListenerZones(listeners)
              ELSE ListenerDataArray' = listeners
           /\ ZoneChanged' = ZoneChanged \o broadcasts
    /\ ParamsUpdated' = <<>>
    /\ IF OcclusionDue(OcclusionUpdateAccumulator')
       THEN pc' = "occlusion" /\ iter' = SeqOfSet(Ids \ {Unreg})
       ELSE IF ReflectionDue(ReflectionUpdateAccumulator')
            THEN pc' = "reflection" /\ iter' = SeqOfSet(Ids \ {Unreg})
            ELSE pc' = "apply" /\ iter' = <<>>
    /\ UNCHANGED <<Settings, comp, NextSourceId, probe, worldVars, dspVars, net>>

\* the same with no handler bound to OnAcousticZoneChanged
TickBegin(DeltaTime, Views) == TickBeginHandled(DeltaTime, Views, NoSourceId)

(***************************************************************************)
(* ProcessOcclusion: one iteration of the loop over the registry           *)
(***************************************************************************)
\* mutant: the pass stops only once the budget is exceeded
OcclusionBudgetExhausted_Exceeded ==
    CurrentBudget.TotalRaysUsed > CurrentBudget.TotalRaysBudget

\* mutant: the pass never stops for the budget
OcclusionBudgetExhausted_Never == FALSE

\* "Check ray budget": the pass stops here
OcclusionBudgetExhausted ==
    CurrentBudget.TotalRaysUsed >= CurrentBudget.TotalRaysBudget

\* mutant: cached data is never used
UseCachedOcclusion_Never(e) == FALSE

\* "Check if we should use cached data"
UseCachedOcclusion(e) ==
    /\ now - e.LastOcclusionUpdateTime < Settings.OcclusionCacheFrames
    /\ e.CurrentParams.bIsValid

\* mutant: the previous params are not stored
OcclusionUpdate_NoSnapshot(e, hit) ==
    LET Occlusion == ComputeOcclusionFactor(hit, Settings.RealismFactor)
    IN  [e EXCEPT
           !.CurrentParams.Occlusion = Occlusion,
           !.CurrentParams.LowPassCutoff =
               ComputeLPFFromOcclusion(Occlusion, hit.Material),
           !.CurrentParams.TransmissionGain =
               IF hit.bIsValidHit
               THEN (100 - Occlusion) + (Occlusion * hit.Material.Transmission) \div 100
               ELSE 100,
           !.CurrentParams.bIsValid = TRUE,
           !.LastOcclusionUpdateTime = now]

\* the entry after its occlusion was traced with result hit
OcclusionUpdate(e, hit) ==
    LET Occlusion == ComputeOcclusionFactor(hit, Settings.RealismFactor)
    IN  [e EXCEPT
           !.PreviousParams = e.CurrentParams,
           !.CurrentParams.Occlusion = Occlusion,
           !.CurrentParams.LowPassCutoff =
               ComputeLPFFromOcclusion(Occlusion, hit.Material),
           !.CurrentParams.TransmissionGain =
               IF hit.bIsValidHit
               THEN (100 - Occlusion) + (Occlusion * hit.Material.Transmission) \div 100
               ELSE 100,
           !.CurrentParams.bIsValid = TRUE,
           !.LastOcclusionUpdateTime = now]

OcclusionStep(OcclusionHits) ==
    /\ pc = "occlusion"
    /\ iter # <<>>
    /\ LET id == Head(iter)
           e == RegisteredSources[id]
       IN  IF e.EffectiveLOD = Off
           THEN /\ iter' = Tail(iter)
                /\ UNCHANGED <<RegisteredSources, CurrentBudget>>
           ELSE IF OcclusionBudgetExhausted
           THEN /\ iter' = <<>>
                /\ UNCHANGED <<RegisteredSources, CurrentBudget>>
           ELSE IF ~IsLive(e.SourceComponent) \/ UseCachedOcclusion(e)
           THEN /\ iter' = Tail(iter)
                /\ UNCHANGED <<RegisteredSources, CurrentBudget>>
           ELSE /\ \E hit \in OcclusionHits :
                      RegisteredSources' =
                          [RegisteredSources EXCEPT ![id] = OcclusionUpdate(e, hit)]
                /\ CurrentBudget' =
                      [CurrentBudget EXCEPT
                         !.OcclusionRays = CurrentBudget.OcclusionRays + 1,
                         !.TotalRaysUsed = CurrentBudget.TotalRaysUsed + 1]
                /\ iter' = Tail(iter)
    /\ UNCHANGED <<Settings, comp, NextSourceId, OcclusionUpdateAccumulator,
                   ReflectionUpdateAccumulator, ZoneUpdateAccumulator, now, pc,
                   probe,
                   worldVars, eventVars, dspVars, net>>

\* the end of the occlusion pass: OcclusionUpdateAccumulator = 0
OcclusionDone ==
    /\ pc = "occlusion"
    /\ iter = <<>>
    /\ OcclusionUpdateAccumulator' = 0
    /\ IF ReflectionDue(ReflectionUpdateAccumulator)
       THEN pc' = "reflection" /\ iter' = SeqOfSet(Ids)
       ELSE pc' = "apply" /\ iter' = <<>>
    /\ UNCHANGED <<Settings, comp, RegisteredSources, NextSourceId, CurrentBudget,
                   ReflectionUpdateAccumulator, ZoneUpdateAccumulator, now, probe,
                   worldVars, eventVars, dspVars, net>>

(***************************************************************************)
(* ProcessReflections: one iteration of the loop over the registry         *)
(***************************************************************************)
\* mutant: the default preset answers whatever zone the listener is in
CurrentZoneReverbSend_Default == DefaultReverbSend

\* GetCurrentZonePreset(0).DefaultReverbSend: the preset of the zone found at
\* the location of listener 0, the default preset where there is none
CurrentZoneReverbSend ==
    IF Len(ListenerDataArray) = 0 THEN DefaultReverbSend
    ELSE LET z == GetZoneAtLocation(ListenerLocation(ListenerDataArray))
         IN  IF z = NoZoneHandle THEN DefaultReverbSend
             ELSE zone[z].DefaultReverbSend

\* Settings->HeroReflectionRays or Settings->AdvancedReflectionRays
NumRays(e) ==
    IF e.EffectiveLOD = Hero THEN Settings.HeroReflectionRays
    ELSE Settings.AdvancedReflectionRays

\* mutant: the source is admitted when a single ray still fits
ReflectionFits_OneRay(n) ==
    CurrentBudget.TotalRaysUsed + 1 <= CurrentBudget.TotalRaysBudget

\* "Check ray budget": the whole ray count of the source must fit
ReflectionFits(n) ==
    ~(CurrentBudget.TotalRaysUsed + n > CurrentBudget.TotalRaysBudget)

\* the entry after its reflections were sampled with the hits found
ReflectionUpdate(e, hits) ==
    LET refl == ClusterReflections(hits)
    IN  [e EXCEPT
           !.CurrentParams.EarlyReflections = refl,
           !.CurrentParams.ReverbSend =
               ReflectionReverbSend(CurrentZoneReverbSend, refl.ReflectionDensity),
           !.LastReflectionUpdateTime = now]

\* the entry of a Basic source: zone reverb only
BasicReverbUpdate(e) ==
    [e EXCEPT !.CurrentParams.ReverbSend = CurrentZoneReverbSend,
              !.CurrentParams.EarlyReflections = EmptyReflections]

\* the hit lists SampleReflections can return for n rays
HitsFor(ReflectionHits, n) == {h \in ReflectionHits : Len(h) <= n}

ReflectionStep(ReflectionHits) ==
    /\ pc = "reflection"
    /\ iter # <<>>
    /\ LET id == Head(iter)
           e == RegisteredSources[id]
       IN  IF e.EffectiveLOD # Advanced /\ e.EffectiveLOD # Hero
           THEN /\ RegisteredSources' =
                      IF e.EffectiveLOD = Basic
                      THEN [RegisteredSources EXCEPT ![id] = BasicReverbUpdate(e)]
                      ELSE RegisteredSources
                /\ UNCHANGED CurrentBudget
           ELSE IF ~ReflectionFits(NumRays(e)) \/ ~IsLive(e.SourceComponent)
           THEN UNCHANGED <<RegisteredSources, CurrentBudget>>
           ELSE /\ \E hits \in HitsFor(ReflectionHits, NumRays(e)) :
                      RegisteredSources' =
                          [RegisteredSources EXCEPT ![id] = ReflectionUpdate(e, hits)]
                /\ CurrentBudget' =
                      [CurrentBudget EXCEPT
                         !.ReflectionRays = CurrentBudget.ReflectionRays + NumRays(e),
                         !.TotalRaysUsed = CurrentBudget.TotalRaysUsed + NumRays(e)]
    /\ iter' = Tail(iter)
    /\ UNCHANGED <<Settings, comp, NextSourceId, OcclusionUpdateAccumulator,
                   ReflectionUpdateAccumulator, ZoneUpdateAccumulator, now, pc,
                   probe,
                   worldVars, eventVars, dspVars, net>>

\* the end of the reflection pass: ReflectionUpdateAccumulator = 0
ReflectionDone ==
    /\ pc = "reflection"
    /\ iter = <<>>
    /\ ReflectionUpdateAccumulator' = 0
    /\ pc' = "apply"
    /\ UNCHANGED <<Settings, comp, RegisteredSources, NextSourceId, CurrentBudget,
                   OcclusionUpdateAccumulator, ZoneUpdateAccumulator, now, iter,
                   probe,
                   worldVars, eventVars, dspVars, net>>

\* mutant: entries whose component is gone are delivered too
ShouldDeliver_Dead(e) == e.CurrentParams.bIsValid

\* ApplyParamsToSources: "if (Source && Entry.CurrentParams.bIsValid)"
ShouldDeliver(e) == IsLive(e.SourceComponent) /\ e.CurrentParams.bIsValid

\* ApplyParamsToSources: the loop over the registry from position k of ids on;
\* each delivery is Source->OnParamsUpdated followed by the broadcast of
\* OnAcousticParamsUpdated with the key and the entry's CurrentParams
RECURSIVE Deliveries(_, _)
Deliveries(ids, k) ==
    IF k > Len(ids) THEN <<>>
    ELSE LET e == RegisteredSources[ids[k]]
         IN  (IF ShouldDeliver(e)
              THEN <<[SourceId |-> ids[k], Params |-> e.CurrentParams]>>
              ELSE <<>>) \o Deliveries(ids, k + 1)

\* ApplyParamsToSources ends the tick
ApplyParamsToSources ==
    /\ pc = "apply"
    /\ pc' = "idle"
    /\ ParamsUpdated' = Deliveries(SeqOfSet(Ids), 1)
    /\ UNCHANGED <<Settings, comp, RegisteredSources, NextSourceId, CurrentBudget,
                   OcclusionUpdateAccumulator, ReflectionUpdateAccumulator,
                   ZoneUpdateAccumulator, now, iter, probe,
                   worldVars, ListenerDataArray, ZoneChanged,
                   dspVars, net>>

(***************************************************************************)
(* ApplyParamsToSources with handlers bound to OnAcousticParamsUpdated.    *)
(* The loop is a ranged for over the TMap; the handler runs inside the     *)
(* broadcast, as the last statement of the loop body, and may call         *)
(* UnregisterSource or UnregisterZone.  TMap::Remove releases the slot of  *)
(* the removed pair and moves no other pair, so the iterator goes on to    *)
(* the pairs that are still in the map.                                    *)
(***************************************************************************)
\* a removal that ends the loop
AfterRemoval_Stops(ids, id) == IF id = NoSourceId THEN ids ELSE <<>>

\* the pairs the loop has still to visit once the handler has removed id
AfterRemoval(ids, id) == SelectSeq(ids, LAMBDA x : x # id)

\* the loop begins
ApplyBegin ==
    /\ pc = "apply"
    /\ pc' = "applying"
    /\ iter' = SeqOfSet(Ids)
    /\ UNCHANGED <<Settings, comp, RegisteredSources, NextSourceId, CurrentBudget,
                   OcclusionUpdateAccumulator, ReflectionUpdateAccumulator,
                   ZoneUpdateAccumulator, now, probe, worldVars, eventVars,
                   dspVars, net>>

\* one pass of the loop body, for the pair at the head of iter; if params are
\* delivered, the handler of the broadcast calls UnregisterSource(Unreg) and
\* UnregisterZone(z) (NoSourceId, NoZoneHandle: it does not)
ApplyVisit(Unreg, z) ==
    /\ pc = "applying"
    /\ iter # <<>>
    /\ LET id == Head(iter)
           e == RegisteredSources[id]
       IN  IF ShouldDeliver(e)
           THEN /\ Unreg # NoSourceId => Unreg \in Ids
                /\ ParamsUpdated' = Append(ParamsUpdated,
                                        [SourceId |-> id, Params |-> e.CurrentParams])
                /\ RegisteredSources' = HandlerUnregisters(RegisteredSources, Unreg)
                /\ iter' = AfterRemoval(Tail(iter), Unreg)
                /\ RegisteredZones' = IF z = NoZoneHandle THEN RegisteredZones
                                      ELSE UnregisterZoneResult(RegisteredZones, z)
           ELSE /\ Unreg = NoSourceId
                /\ z = NoZoneHandle
                /\ iter' = Tail(iter)
                /\ UNCHANGED <<ParamsUpdated, RegisteredSources, RegisteredZones>>
    /\ UNCHANGED <<Settings, comp, NextSourceId, CurrentBudget,
                   OcclusionUpdateAccumulator, ReflectionUpdateAccumulator,
                   ZoneUpdateAccumulator, now, pc, probe,
                   zone, NextZoneId, portal, NextPortalId,
                   ListenerDataArray, ZoneChanged, dspVars, net>>

\* the loop ends, and with it the tick
ApplyDone ==
    /\ pc = "applying"
    /\ iter = <<>>
    /\ pc' = "idle"
    /\ UNCHANGED <<Settings, comp, RegisteredSources, NextSourceId, CurrentBudget,
                   OcclusionUpdateAccumulator, ReflectionUpdateAccumulator,
                   ZoneUpdateAccumulator, now, iter, probe, worldVars, eventVars,
                   dspVars, net>>

(***************************************************************************)
(* Multiplayer (AcousticMultiplayer.cpp): every endpoint runs its own      *)
(* world with its own engine; one replicated source actor and one          *)
(* replicated portal.  Endpoint 1 has authority (listen server), every     *)
(* endpoint has one local player.                                          *)
(***************************************************************************)
NumEndpoints == 2
Endpoints == 1..NumEndpoints
Authority == 1

\* the scene, the same at every endpoint: the source actor and one wall
SourceLocation == 0
WallLocation == 5
WallMaterial == [DefaultMaterial EXCEPT !.Transmission = 20]

\* UAcousticSettings::RealismFactor = 0.7f, in percent
DefaultRealismFactor == 70

\* FReplicatedAcousticState as constructed
DefaultReplicatedState ==
    [bIsPlaying |-> FALSE, bIsLooping |-> FALSE, BaseLoudness |-> 100,
     AcousticLOD |-> Basic, bIsHeroSource |-> FALSE, Importance |-> Normal,
     PlaybackPosition |-> 0]

\* the linked UAcousticSourceComponent as constructed, its audio component
\* and the params the local engine holds for it
DefaultLinkedSource ==
    [AcousticLOD |-> Advanced, Importance |-> Normal, BaseLoudness |-> 100,
     IsHero |-> FALSE, IsPlaying |-> FALSE, CurrentParams |-> ResetParams]

\* UAcousticPortalReplicationComponent as constructed, and the target
\* openness of the portal volume it is attached to
DefaultPortalState == [bIsOpen |-> TRUE, Openness |-> 100, TargetOpenness |-> 100]

\* UAcousticReplicationComponent::UpdateReplicatedStateFromSource
UpdateReplicatedStateFromSource(ReplicatedState, LinkedSource) ==
    [ReplicatedState EXCEPT
       !.AcousticLOD = LinkedSource.AcousticLOD,
       !.Importance = LinkedSource.Importance,
       !.BaseLoudness = LinkedSource.BaseLoudness,
       !.bIsHeroSource = LinkedSource.IsHero,
       !.bIsPlaying = LinkedSource.IsPlaying]

\* UAcousticReplicationComponent::ApplyReplicatedState
ApplyReplicatedState(ReplicatedState, LinkedSource) ==
    [LinkedSource EXCEPT
       !.AcousticLOD = ReplicatedState.AcousticLOD,
       !.IsHero = ReplicatedState.bIsHeroSource,
       !.Importance = ReplicatedState.Importance,
       !.BaseLoudness = ReplicatedState.BaseLoudness,
       !.IsPlaying = ReplicatedState.bIsPlaying]

\* an endpoint when play begins; BeginPlay of the replication component has
\* run UpdateReplicatedStateFromSource where the owner has authority
EndpointAtBeginPlay(e) ==
    [ReplicatedState |->
         IF e = Authority
         THEN UpdateReplicatedStateFromSource(DefaultReplicatedState,
                                              DefaultLinkedSource)
         ELSE DefaultReplicatedState,
     Source |-> DefaultLinkedSource,
     Portal |-> DefaultPortalState,
     View |-> SourceLocation,
     Listener |-> DefaultListenerData.Location]

NetBeginPlay == net = [e \in Endpoints |-> EndpointAtBeginPlay(e)]

\* World->LineTraceSingleByChannel of TraceOcclusion against the scene
LineTrace(Start, End) ==
    IF Min(Start, End) < WallLocation /\ WallLocation < Max(Start, End)
    THEN RayHit(Abs(WallLocation - Start), WallMaterial)
    ELSE NoHit

\* mutant: no controller passes the IsLocalController test
LocalViews_None(e) == <<>>

\* the view points of the player controllers in the world of endpoint e that
\* pass PC->IsLocalController(): the one of its own player
LocalViews(e) == <<net[e].View>>

\* the location of listener 0 of endpoint e after UpdateListenersFromPlayers
ListenerAfterUpdate(e) ==
    UpdateListenersFromPlayers(
        <<[DefaultListenerData EXCEPT !.Location = net[e].Listener]>>,
        LocalViews(e), 1)[1].Location

\* ProcessOcclusion for the one source, traced from FromLocation
ProcessOcclusionFrom(LinkedSource, FromLocation) ==
    IF LinkedSource.AcousticLOD = Off
    THEN LinkedSource.CurrentParams
    ELSE LET hit == LineTrace(FromLocation, SourceLocation)
             Occlusion == ComputeOcclusionFactor(hit, DefaultRealismFactor)
         IN  [LinkedSource.CurrentParams EXCEPT
                !.Occlusion = Occlusion,
                !.LowPassCutoff = ComputeLPFFromOcclusion(Occlusion, hit.Material),
                !.TransmissionGain =
                    IF hit.bIsValidHit
                    THEN (100 - Occlusion)
                         + (Occlusion * hit.Material.Transmission) \div 100
                    ELSE 100,
                !.bIsValid = TRUE]

notNetVars == <<engineVars, probe, worldVars, eventVars, dspVars>>

\* the local player of endpoint e moves its camera
MoveView(e, Location) ==
    /\ net[e].View # Location
    /\ net' = [net EXCEPT ![e].View = Location]
    /\ UNCHANGED notNetVars

\* UAcousticEngineSubsystem::Tick at endpoint e
EndpointTick(e) ==
    /\ \E FromLocation \in {ListenerAfterUpdate(e)} :
          net' = [net EXCEPT
                    ![e].Listener = FromLocation,
                    ![e].Source.CurrentParams =
                        ProcessOcclusionFrom(net[e].Source, FromLocation)]
    /\ UNCHANGED notNetVars

\* UAcousticListenerManagerComponent::UpdateListenerPosition at endpoint e,
\* of the component on the pawn of player o (ListenerIndex = 0): the camera
\* of o, or the location of its pawn, which movement replication keeps at o
UpdateListenerPosition(e, o) ==
    /\ net[e].Listener # net[o].View
    /\ net' = [net EXCEPT ![e].Listener = net[o].View]
    /\ UNCHANGED notNetVars

\* Server_PlaySound_Implementation / Server_StopSound_Implementation, run
\* where the owner has authority
Server_SetPlaying(bPlay) ==
    /\ net[Authority].ReplicatedState.bIsPlaying # bPlay
    /\ net' = [net EXCEPT ![Authority].ReplicatedState.bIsPlaying = bPlay,
                          ![Authority].ReplicatedState.PlaybackPosition = 0,
                          ![Authority].Source.IsPlaying = bPlay]
    /\ UNCHANGED notNetVars

\* Server_SetAcousticLOD_Implementation
Server_SetAcousticLOD(NewLOD) ==
    /\ net[Authority].ReplicatedState.AcousticLOD # NewLOD
    /\ net' = [net EXCEPT ![Authority].ReplicatedState.AcousticLOD = NewLOD,
                          ![Authority].Source.AcousticLOD = NewLOD]
    /\ UNCHANGED notNetVars

\* UAcousticSourceComponent::SetImportance, called by the game on the source
\* of the endpoint that has authority
SetImportance(NewImportance) ==
    /\ net[Authority].Source.Importance # NewImportance
    /\ net' = [net EXCEPT ![Authority].Source.Importance = NewImportance]
    /\ UNCHANGED notNetVars

\* UAcousticReplicationComponent::TickComponent where the owner has authority
ReplicationTick ==
    /\ \E st \in {UpdateReplicatedStateFromSource(net[Authority].ReplicatedState,
                                                  net[Authority].Source)} :
          /\ st # net[Authority].ReplicatedState
          /\ net' = [net EXCEPT ![Authority].ReplicatedState = st]
    /\ UNCHANGED notNetVars

\* the replicated property arrives at endpoint e: OnRep_AudioState
OnRep_AudioState(e) ==
    /\ e # Authority
    /\ net[e].ReplicatedState # net[Authority].ReplicatedState
    /\ \E st \in {net[Authority].ReplicatedState} :
          net' = [net EXCEPT
                    ![e].ReplicatedState = st,
                    ![e].Source = ApplyReplicatedState(st, net[e].Source)]
    /\ UNCHANGED notNetVars

\* Server_SetOpen_Implementation with ApplyStateToPortal
Server_SetOpen(bOpen) ==
    /\ net[Authority].Portal.bIsOpen # bOpen
    /\ \E Openness \in {IF bOpen THEN 100 ELSE 0} :
          net' = [net EXCEPT
                    ![Authority].Portal =
                        [bIsOpen |-> bOpen, Openness |-> Openness,
                         TargetOpenness |-> Openness]]
    /\ UNCHANGED notNetVars

\* the replicated portal properties arrive at endpoint e: OnRep_PortalState
OnRep_PortalState(e) ==
    /\ e # Authority
    /\ net[e].Portal # net[Authority].Portal
    /\ net' = [net EXCEPT
                 ![e].Portal =
                     [bIsOpen |-> net[Authority].Portal.bIsOpen,
                      Openness |-> net[Authority].Portal.Openness,
                      TargetOpenness |-> net[Authority].Portal.Openness]]
    /\ UNCHANGED notNetVars

(***************************************************************************)
(* Spec: the tick and its ray budget.  Components differ in their LOD and  *)
(* are registered by direct calls of RegisterSource, so a destroyed        *)
(* component leaves its entry behind; budgets and ray results vary.        *)
(***************************************************************************)
BudgetProfiles ==
    <<NewComponent(Basic, Normal, FALSE, 2, -1, 100),
      NewComponent(Advanced, Normal, FALSE, 2, -1, 100),
      NewComponent(Hero, Normal, FALSE, 2, -1, 100)>>
BudgetSettings == {MakeSettings(r, 1, 1) : r \in {2, 4}}
BudgetDeltaTimes == {4}
BudgetOcclusionHits == {RayHit(500, DefaultMaterial)}
BudgetReflectionHits ==
    {<<>>, <<RayHit(686, DefaultMaterial), RayHit(343, DefaultMaterial)>>}

Init ==
    /\ InitEngine(BudgetSettings, BudgetProfiles)
    /\ EmptyWorld
    /\ ConstructedEffects
    /\ NetBeginPlay
    /\ probe = NoProbe

Next ==
    \/ \E c \in Comps : RegisterSource(c)
    \/ \E c \in Comps : DestroyComponent(c)
    \/ \E dt \in BudgetDeltaTimes : TickBegin(dt, <<>>)
    \/ OcclusionStep(BudgetOcclusionHits)
    \/ OcclusionDone
    \/ ReflectionStep(BudgetReflectionHits)
    \/ ReflectionDone
    \/ ApplyParamsToSources

Spec == Init /\ [][Next]_vars

(***************************************************************************)
(* Properties of the ray budget, under Spec                                *)
(***************************************************************************)
\* C1: in every state of a tick, and so at its end, TotalRaysUsed is at most
\* TotalRaysBudget, also when the occlusion pass and the reflection pass both
\* run; and the occlusion pass casts a ray only while TotalRaysUsed is still
\* below TotalRaysBudget.
C1_RayBudget ==
    /\ [](/\ CurrentBudget.TotalRaysUsed <= CurrentBudget.TotalRaysBudget
          /\ CurrentBudget.TotalRaysUsed =
                CurrentBudget.OcclusionRays + CurrentBudget.ReflectionRays)
    /\ [][CurrentBudget'.OcclusionRays > CurrentBudget.OcclusionRays
            => /\ CurrentBudget.TotalRaysUsed < CurrentBudget.TotalRaysBudget
               /\ CurrentBudget'.OcclusionRays = CurrentBudget.OcclusionRays + 1
               /\ CurrentBudget'.TotalRaysUsed = CurrentBudget.TotalRaysUsed + 1]_vars

\* C1 witness: the end of a tick in which both passes cast rays, the budget is
\* used up exactly and a live Hero source went without reflections for it
C1_Witness ==
    /\ pc = "apply"
    /\ CurrentBudget.OcclusionRays > 0
    /\ CurrentBudget.ReflectionRays > 0
    /\ CurrentBudget.TotalRaysUsed = CurrentBudget.TotalRaysBudget
    /\ \E id \in Ids :
          /\ IsLive(RegisteredSources[id].SourceComponent)
          /\ RegisteredSources[id].EffectiveLOD = Hero
          /\ RegisteredSources[id].LastReflectionUpdateTime = 0

\* C2: in a reflection pass, the step for an Advanced or Hero entry with N the
\* ray count of its effective LOD either found TotalRaysUsed + N <=
\* TotalRaysBudget, charges exactly N rays and rewrites the taps, the reverb
\* send and LastReflectionUpdateTime, or charges nothing and leaves the three
\* unchanged.
C2_AllOrNothing ==
    [][(pc = "reflection" /\ iter # <<>>) =>
        LET id == Head(iter)
            e == RegisteredSources[id]
            f == RegisteredSources'[id]
            N == IF e.EffectiveLOD = Hero THEN Settings.HeroReflectionRays
                 ELSE Settings.AdvancedReflectionRays
            charged == CurrentBudget'.TotalRaysUsed - CurrentBudget.TotalRaysUsed
        IN  e.EffectiveLOD \in {Advanced, Hero} =>
              \/ /\ CurrentBudget.TotalRaysUsed + N <= CurrentBudget.TotalRaysBudget
                 /\ charged = N
                 /\ CurrentBudget'.ReflectionRays = CurrentBudget.ReflectionRays + N
                 /\ f.LastReflectionUpdateTime = now
                 /\ \E hits \in BudgetReflectionHits :
                       /\ f.CurrentParams.EarlyReflections = ClusterReflections(hits)
                       /\ f.CurrentParams.ReverbSend =
                             ReflectionReverbSend(DefaultReverbSend, Len(hits))
              \/ /\ charged = 0
                 /\ CurrentBudget'.ReflectionRays = CurrentBudget.ReflectionRays
                 /\ f.LastReflectionUpdateTime = e.LastReflectionUpdateTime
                 /\ f.CurrentParams.EarlyReflections = e.CurrentParams.EarlyReflections
                 /\ f.CurrentParams.ReverbSend = e.CurrentParams.ReverbSend]_vars

\* C2 witness: in one reflection pass an entry was charged and rewritten, and
\* a live Hero entry that holds taps from an earlier pass was passed over
C2_Witness ==
    /\ pc = "reflection"
    /\ \E a \in Ids : \E b \in Ids :
          LET ea == RegisteredSources[a]
              eb == RegisteredSources[b]
          IN  /\ \A i \in 1..Len(iter) : iter[i] # a /\ iter[i] # b
              /\ ea.LastReflectionUpdateTime = now
              /\ ea.CurrentParams.EarlyReflections.ValidTapCount > 0
              /\ IsLive(eb.SourceComponent)
              /\ eb.EffectiveLOD = Hero
              /\ eb.LastReflectionUpdateTime > 0
              /\ eb.LastReflectionUpdateTime < now
              /\ eb.CurrentParams.EarlyReflections.ValidTapCount > 0
              /\ CurrentBudget.ReflectionRays = Settings.AdvancedReflectionRays

(***************************************************************************)
(* SpecSched: the scheduler.  Components differ in LOD, priority and       *)
(* distance to the listener; rays hit nothing.                             *)
(***************************************************************************)
SchedProfiles ==
    <<NewComponent(Advanced, Normal, FALSE, 2, 3, 100),
      NewComponent(Advanced, Normal, FALSE, 2, -1, 100),
      NewComponent(Hero, Normal, FALSE, 2, 0, 100),
      NewComponent(Hero, Normal, FALSE, 2, -1, 4000),
      NewComponent(Advanced, Normal, FALSE, 2, -1, 10000),
      NewComponent(Basic, Normal, FALSE, 2, -1, 100),
      NewComponent(Off, Normal, FALSE, 2, -1, 100)>>
SchedSettings == {MakeSettings(5, 1, 1)}
SchedDeltaTimes == {4}

InitSched ==
    /\ InitEngine(SchedSettings, SchedProfiles)
    /\ EmptyWorld
    /\ ConstructedEffects
    /\ NetBeginPlay
    /\ probe = NoProbe

NextSched ==
    \/ \E c \in Comps : RegisterSource(c)
    \/ \E c \in Comps : DestroyComponent(c)
    \/ \E dt \in SchedDeltaTimes : TickBegin(dt, <<>>)
    \/ OcclusionStep({NoHit})
    \/ OcclusionDone
    \/ ReflectionStep({<<>>})
    \/ ReflectionDone
    \/ ApplyParamsToSources

SpecSched == InitSched /\ [][NextSched]_vars

(***************************************************************************)
(* Properties of the scheduler, under SpecSched                            *)
(***************************************************************************)
\* C3: in every state, counting every entry of the registry (those made since
\* the last scheduling pass and those of destroyed components included), at
\* most MaxHeroSources entries have EffectiveLOD Hero.
C3_HeroCap ==
    Cardinality({id \in Ids : RegisteredSources[id].EffectiveLOD = Hero})
        <= Settings.MaxHeroSources

\* C4: after a scheduling pass, at most MaxAdvancedSources sources with a
\* live component have EffectiveLOD Advanced or Hero, counted together.
C4_AdvancedCap ==
    pc # "idle" =>
        Cardinality({id \in Ids :
                        /\ IsLive(RegisteredSources[id].SourceComponent)
                        /\ RegisteredSources[id].EffectiveLOD \in {Advanced, Hero}})
            <= Settings.MaxAdvancedSources

\* C5: after a scheduling pass, for two live sources a and b with a's score
\* above b's: if both have the distance-adjusted desired LOD Hero and b is
\* assigned Hero then so is a, and if both have a distance-adjusted desired
\* LOD of at least Advanced and b is assigned Advanced or Hero then so is a.
C5_PriorityOrder ==
    pc # "idle" =>
        \A a \in Ids : \A b \in Ids :
            LET ea == RegisteredSources[a]
                eb == RegisteredSources[b]
                ca == comp[ea.SourceComponent]
                cb == comp[eb.SourceComponent]
                da == IF ca.Location > Settings.OffLODDistance THEN Off
                      ELSE IF ca.Location > Settings.BasicLODDistance
                      THEN Min(ca.AcousticLOD, Basic) ELSE ca.AcousticLOD
                db == IF cb.Location > Settings.OffLODDistance THEN Off
                      ELSE IF cb.Location > Settings.BasicLODDistance
                      THEN Min(cb.AcousticLOD, Basic) ELSE cb.AcousticLOD
            IN  (/\ IsLive(ea.SourceComponent)
                 /\ IsLive(eb.SourceComponent)
                 /\ ea.PriorityScore > eb.PriorityScore)
                => /\ (da = Hero /\ db = Hero /\ eb.EffectiveLOD = Hero)
                        => ea.EffectiveLOD = Hero
                   /\ (da >= Advanced /\ db >= Advanced
                         /\ eb.EffectiveLOD >= Advanced)
                        => ea.EffectiveLOD >= Advanced

\* C8: after a scheduling pass, every source with a live component has an
\* effective LOD no higher than its configured LOD, Off when its distance to
\* the listener is above OffLODDistance, and at most Basic when its distance
\* is above BasicLODDistance.
C8_DistanceDowngrade ==
    pc # "idle" =>
        \A id \in Ids :
            LET e == RegisteredSources[id]
                c == comp[e.SourceComponent]
            IN  IsLive(e.SourceComponent) =>
                  /\ e.EffectiveLOD <= c.AcousticLOD
                  /\ c.Location > Settings.OffLODDistance => e.EffectiveLOD = Off
                  /\ c.Location > Settings.BasicLODDistance => e.EffectiveLOD <= Basic

\* C8 witness: a pass has left a near Hero source at Hero, a Hero source
\* beyond BasicLODDistance at Basic and an Advanced source beyond
\* OffLODDistance at Off
C8_Witness ==
    /\ pc = "apply"
    /\ \E x \in Ids : \E y \in Ids : \E z \in Ids :
          LET ex == RegisteredSources[x]
              ey == RegisteredSources[y]
              ez == RegisteredSources[z]
          IN  /\ IsLive(ex.SourceComponent)
              /\ IsLive(ey.SourceComponent)
              /\ IsLive(ez.SourceComponent)
              /\ comp[ex.SourceComponent].AcousticLOD = Hero
              /\ comp[ex.SourceComponent].Location <= Settings.BasicLODDistance
              /\ ex.EffectiveLOD = Hero
              /\ comp[ey.SourceComponent].AcousticLOD = Hero
              /\ comp[ey.SourceComponent].Location > Settings.BasicLODDistance
              /\ ey.EffectiveLOD = Basic
              /\ comp[ez.SourceComponent].AcousticLOD = Advanced
              /\ comp[ez.SourceComponent].Location > Settings.OffLODDistance
              /\ ez.EffectiveLOD = Off

\* C9: in every state every entry's audibility flag equals (EffectiveLOD is
\* not Off), so that GetNumActiveSources counts the entries whose effective
\* LOD is not Off.
C9_AudibleIffNotOff ==
    /\ \A id \in Ids :
          RegisteredSources[id].bIsAudible = (RegisteredSources[id].EffectiveLOD # Off)
    /\ GetNumActiveSources =
          Cardinality({id \in Ids : RegisteredSources[id].EffectiveLOD # Off})

(***************************************************************************)
(* SpecRegistry: the registry.  Components register through BeginPlay or   *)
(* by direct calls, unregister, are destroyed and register again, with     *)
(* ticks in between.                                                       *)
(***************************************************************************)
RegistryProfiles ==
    <<NewComponent(Advanced, Normal, FALSE, 2, -1, 100)>>
RegistrySettings == {MakeSettings(5, 1, 1)}
RegistryDeltaTimes == {4}

InitRegistry ==
    /\ InitEngine(RegistrySettings, RegistryProfiles)
    /\ EmptyWorld
    /\ ConstructedEffects
    /\ NetBeginPlay
    /\ probe = NoProbe

NextRegistry ==
    \/ \E c \in Comps : RegisterSource(c)
    \/ \E c \in Comps : RegisterWithEngine(c)
    \/ \E c \in Comps : UnregisterFromEngine(c)
    \/ \E id \in 1..MaxSourceId : UnregisterSource(id)
    \/ \E c \in Comps : DestroyComponent(c)
    \/ \E dt \in RegistryDeltaTimes : TickBegin(dt, <<>>)
    \/ OcclusionStep({NoHit})
    \/ OcclusionDone
    \/ ReflectionStep({<<>>})
    \/ ReflectionDone
    \/ ApplyParamsToSources

SpecRegistry == InitRegistry /\ [][NextRegistry]_vars

(***************************************************************************)
(* Properties of the registry, under SpecRegistry                          *)
(***************************************************************************)
\* C10: RegisterSource of a live handle that has an entry returns the ID of
\* that entry, the one ID the handle was given when the entry was made (the
\* one its component stored in BeginPlay), and leaves the registry and the
\* next-ID counter as they are; no step changes the handle an entry holds.
C10_RegisterIdempotent ==
    /\ [](\A c \in Comps :
            (IsLive(c) /\ \E id \in Ids : RegisteredSources[id].SourceComponent = c)
            => LET r == RegisterSourceResult(c)
               IN  /\ r.id \in Ids
                   /\ r.id < NextSourceId
                   /\ \A id \in Ids :
                         RegisteredSources[id].SourceComponent = c <=> id = r.id
                   /\ RegisteredSources[r.id].SourceId = r.id
                   /\ (comp[c].bIsRegistered /\ comp[c].SourceId \in Ids)
                         => r.id = comp[c].SourceId
                   /\ r.regs = RegisteredSources
                   /\ r.next = NextSourceId)
    /\ [][\A id \in Ids :
            /\ id < NextSourceId'
            /\ id \in DOMAIN RegisteredSources' =>
                  RegisteredSources'[id].SourceComponent =
                      RegisteredSources[id].SourceComponent]_vars

\* C10 witness: after two ticks a live component that registered in BeginPlay
\* holds the entry it was given, traced and scheduled since, and another
\* source registered after it
C10_Witness ==
    /\ pc = "idle"
    /\ now = StartTime + 8
    /\ \E c \in Comps : \E o \in Ids :
          /\ IsLive(c)
          /\ comp[c].bIsRegistered
          /\ comp[c].SourceId \in Ids
          /\ RegisterSourceResult(c).id = comp[c].SourceId
          /\ RegisteredSources[comp[c].SourceId].CurrentParams.bIsValid
          /\ RegisteredSources[comp[c].SourceId].LastOcclusionUpdateTime > 0
          /\ o > comp[c].SourceId
          /\ RegisteredSources[o].LastOcclusionUpdateTime >
                RegisteredSources[comp[c].SourceId].LastOcclusionUpdateTime

(***************************************************************************)
(* SpecPriority: ComputePriorityScore applied to two components whose      *)
(* properties and distances to the listener are drawn from PriorityInputs. *)
(***************************************************************************)
PriorityInputs ==
    {NewComponent(Advanced, imp, hero, loud, over, loc) :
        imp \in Importances, hero \in BOOLEAN, loud \in {1, 2},
        over \in {-1, 0, 3}, loc \in {0, 100, 4000}}

InitPriority ==
    /\ InitEngine(RegistrySettings, RegistryProfiles)
    /\ EmptyWorld
    /\ ConstructedEffects
    /\ NetBeginPlay
    /\ \E a \in PriorityInputs : \E b \in PriorityInputs :
          probe = [phase |-> "input", a |-> a, b |-> b]

\* the scheduler's call of ComputePriorityScore for each of the two
ScoreProbe ==
    /\ probe.phase = "input"
    /\ probe' = [phase |-> "scored", a |-> probe.a, b |-> probe.b,
                 scoreA |-> ComputePriorityScore(probe.a, probe.a.Location),
                 scoreB |-> ComputePriorityScore(probe.b, probe.b.Location)]
    /\ UNCHANGED <<engineVars, worldVars, eventVars, dspVars, net>>

NextPriority == ScoreProbe

SpecPriority == InitPriority /\ [][NextPriority]_vars

\* C6: every Critical source has the score FLT_MAX, at least the score of
\* any other source, whatever its manual override, hero flag, loudness or
\* distance.
C6_CriticalMax ==
    (probe.phase = "scored" /\ probe.a.Importance = Critical)
        => /\ probe.scoreA = FLT_MAX
           /\ probe.scoreA >= probe.scoreB

\* C6 amended: a Critical source without manual override (override < 0) has
\* the score FLT_MAX, at least the score of any other source, whatever its
\* hero flag, loudness or distance; a Critical source with a manual
\* override >= 0 has the override as its score.
C6_CriticalMaxNoOverride ==
    (probe.phase = "scored" /\ probe.a.Importance = Critical)
        => IF probe.a.PriorityOverride < 0
           THEN /\ probe.scoreA = FLT_MAX
                /\ probe.scoreA >= probe.scoreB
           ELSE probe.scoreA = probe.a.PriorityOverride * ScoreScale

\* C6 witness: a Critical source without override scored above the loudest
\* nearest Important hero source
C6_Witness ==
    /\ probe.phase = "scored"
    /\ probe.a.Importance = Critical
    /\ probe.a.PriorityOverride < 0
    /\ probe.a.Location = 4000
    /\ ~probe.a.IsHero
    /\ probe.b.Importance = Important
    /\ probe.b.IsHero
    /\ probe.b.Location = 0
    /\ probe.b.PriorityOverride < 0
    /\ probe.scoreB > 0
    /\ probe.scoreA > probe.scoreB

\* C7: a source with a manual override >= 0 has exactly the override as its
\* score, whatever its distance, loudness, importance and hero flag; with a
\* negative override the score is the computed one.
C7_OverrideVerbatim ==
    probe.phase = "scored" =>
        LET c == probe.a
            Computed ==
                IF c.Importance = Critical THEN FLT_MAX
                ELSE c.BaseLoudness * ((100 * 200) \div Max(c.Location, 1))
                       * ImportanceMultipliers[c.Importance + 1]
                       * (IF c.IsHero THEN 100 ELSE 1)
        IN  /\ c.PriorityOverride >= 0 =>
                  probe.scoreA = c.PriorityOverride * ScoreScale
            /\ (c.PriorityOverride >= 0
                 /\ probe.b.PriorityOverride = c.PriorityOverride) =>
                  probe.scoreA = probe.scoreB
            /\ c.PriorityOverride < 0 => probe.scoreA = Computed

\* C7 witness: a Critical hero source at the listener with override 3 scored
\* 3, below a source without override
C7_Witness ==
    /\ probe.phase = "scored"
    /\ probe.a.PriorityOverride = 3
    /\ probe.a.Importance = Critical
    /\ probe.a.IsHero
    /\ probe.a.Location = 0
    /\ probe.scoreA = 3 * ScoreScale
    /\ probe.b.PriorityOverride < 0
    /\ probe.b.Importance = Normal
    /\ probe.scoreB > probe.scoreA

(***************************************************************************)
(* SpecIds: the identifiers.  Sources are registered by direct calls (for  *)
(* components and for the null handle) and unregistered; zone and portal   *)
(* actors are constructed and destroyed.                                   *)
(***************************************************************************)
IdsProfiles == <<NewComponent(Basic, Normal, FALSE, 2, -1, 100)>>

InitIds ==
    /\ InitEngine(RegistrySettings, IdsProfiles)
    /\ EmptyWorld
    /\ ConstructedEffects
    /\ NetBeginPlay
    /\ probe = NoProbe

NextIds ==
    \/ \E c \in Comps \cup {NoComp} : RegisterSourceCall(c)
    \/ \E id \in 1..MaxSourceId : UnregisterSource(id)
    \/ \E c \in Comps : DestroyComponent(c)
    \/ \E z \in Zones : ConstructZone(z, 0, 0, 100)
    \/ \E z \in Zones : DestroyZone(z)
    \/ \E p \in Portals : ConstructPortal(p, 0)

SpecIds == InitIds /\ [][NextIds]_vars

(***************************************************************************)
(* Properties of the identifiers, under SpecIds                            *)
(***************************************************************************)
\* the zone and portal actors constructed so far
ConstructedZones == {z \in Zones : zone[z].life # "none"}
ConstructedPortals == {p \in Portals : portal[p].life # "none"}

\* C11: source IDs are unique, start at 1, and each new one is greater than
\* every ID handed out before (the IDs handed out are 1..NextSourceId-1, so
\* the ID of an unregistered source is never given again); zone IDs and portal
\* IDs are unique and grow in the order of construction.
C11_IdsUniqueIncreasing ==
    /\ [](/\ NextSourceId >= 1
          /\ \A id \in Ids : /\ 1 <= id /\ id < NextSourceId
                              /\ RegisteredSources[id].SourceId = id
          /\ \A y \in ConstructedZones : \A z \in ConstructedZones :
                 /\ 1 <= zone[z].ZoneId /\ zone[z].ZoneId < NextZoneId
                 /\ y # z => zone[y].ZoneId # zone[z].ZoneId
          /\ \A p \in ConstructedPortals : \A q \in ConstructedPortals :
                 /\ 1 <= portal[p].PortalId /\ portal[p].PortalId < NextPortalId
                 /\ p # q => portal[p].PortalId # portal[q].PortalId)
    /\ [][/\ NextSourceId' >= NextSourceId
          /\ \A id \in (DOMAIN RegisteredSources') \ Ids :
                 /\ id = NextSourceId
                 /\ NextSourceId' = id + 1
                 /\ \A old \in 1..(NextSourceId - 1) : old < id
          /\ Ids = DOMAIN RegisteredSources' => NextSourceId' = NextSourceId
          /\ \A z \in Zones :
                 IF z \in ConstructedZones
                 THEN zone'[z].ZoneId = zone[z].ZoneId
                 ELSE zone'[z].life # "none" =>
                         /\ zone'[z].ZoneId = NextZoneId
                         /\ NextZoneId' = NextZoneId + 1
                         /\ \A y \in ConstructedZones :
                                zone[y].ZoneId < zone'[z].ZoneId
          /\ \A p \in Portals :
                 IF p \in ConstructedPortals
                 THEN portal'[p].PortalId = portal[p].PortalId
                 ELSE portal'[p].life # "none" =>
                         /\ portal'[p].PortalId = NextPortalId
                         /\ NextPortalId' = NextPortalId + 1
                         /\ \A q \in ConstructedPortals :
                                portal[q].PortalId < portal'[p].PortalId]_vars

\* C11 witness: source 1 was unregistered and a source registered afterwards
\* holds ID 3 while ID 2 is still registered; the second zone and the second
\* portal hold ID 2, the first zone is destroyed
C11_Witness ==
    /\ Ids = {2, 3}
    /\ probe.phase = "RegisterSource" /\ probe.id = 3
    /\ \E y \in Zones : \E z \in Zones :
          /\ zone[y].life = "dead" /\ zone[y].ZoneId = 1
          /\ zone[z].life = "alive" /\ zone[z].ZoneId = 2
    /\ \E p \in Portals : portal[p].PortalId = 2

\* C12: a call of RegisterSource with the null handle returns -1 and leaves
\* the registry and the ID counter as they were.
C12_NullRegister ==
    [][(probe' # probe /\ probe'.phase = "RegisterSource" /\ probe'.Source = NoComp)
          => /\ probe'.id = -1
             /\ RegisteredSources' = RegisteredSources
             /\ NextSourceId' = NextSourceId]_vars

\* C12 witness: with two sources registered, the latest call was made with
\* the null handle and returned -1
C12_Witness ==
    /\ probe.phase = "RegisterSource"
    /\ probe.Source = NoComp
    /\ probe.id = -1
    /\ Ids = {1, 2}
    /\ NextSourceId = 3

(***************************************************************************)
(* SpecEvents: what a tick delivers.  Sources are registered by direct     *)
(* calls and unregistered by ID, components are destroyed behind the       *)
(* registry's back; the budget is two rays, so with three audible sources  *)
(* one entry stays without valid parameters.                               *)
(***************************************************************************)
EventsProfiles ==
    <<NewComponent(Basic, Normal, FALSE, 2, -1, 100),
      NewComponent(Off, Normal, FALSE, 2, -1, 100)>>
EventsSettings == {MakeSettings(2, 1, 1)}
EventsDeltaTimes == {4}
EventsOcclusionHits == {RayHit(500, DefaultMaterial)}

InitEvents ==
    /\ InitEngine(EventsSettings, EventsProfiles)
    /\ EmptyWorld
    /\ ConstructedEffects
    /\ NetBeginPlay
    /\ probe = NoProbe

NextEvents ==
    \/ \E c \in Comps : RegisterSource(c)
    \/ \E id \in 1..MaxSourceId : UnregisterSource(id)
    \/ \E c \in Comps : DestroyComponent(c)
    \/ \E dt \in EventsDeltaTimes : TickBegin(dt, <<>>)
    \/ OcclusionStep(EventsOcclusionHits)
    \/ OcclusionDone
    \/ ReflectionStep({<<>>})
    \/ ReflectionDone
    \/ ApplyParamsToSources

SpecEvents == InitEvents /\ [][NextEvents]_vars

(***************************************************************************)
(* Properties of the deliveries, under SpecEvents                          *)
(***************************************************************************)
\* the IDs handed out so far that the registry no longer holds
UnregisteredIds == (1..(NextSourceId - 1)) \ Ids

\* IDs that were never handed out
UnknownIds == {-1, 0, NextSourceId, NextSourceId + 1}

\* parameters a caller of GetSourceParams may hold in its output argument
CallerParams ==
    {ResetParams,
     [ResetParams EXCEPT !.Occlusion = 40, !.TransmissionGain = 60,
                         !.bIsValid = TRUE]}

\* the IDs of the deliveries of a log, in order
DeliveredIds(log) == [i \in 1..Len(log) |-> log[i].SourceId]

\* C13: GetSourceParams with an ID that is unknown or was unregistered
\* reports "not found" and leaves the caller's parameters as they were; an
\* entry removed by UnregisterSource is not visited by any later pass: it is
\* charged no ray and no delivery carries its ID.
C13_UnregisteredUntouched ==
    /\ [](/\ \A id \in UnregisteredIds \cup UnknownIds : \A out \in CallerParams :
                 GetSourceParams(id, out) = [found |-> FALSE, OutParams |-> out]
          /\ \A i \in 1..Len(iter) : iter[i] \notin UnregisteredIds)
    /\ [][/\ CurrentBudget'.TotalRaysUsed > CurrentBudget.TotalRaysUsed =>
                 /\ iter # <<>>
                 /\ Head(iter) \notin UnregisteredIds
                 /\ \A id \in Ids \ {Head(iter)} :
                        RegisteredSources'[id] = RegisteredSources[id]
          /\ ParamsUpdated' # ParamsUpdated =>
                 \A i \in 1..Len(ParamsUpdated') :
                    ParamsUpdated'[i].SourceId \notin UnregisteredIds
          /\ UnregisteredIds \subseteq
                 ((1..(NextSourceId' - 1)) \ DOMAIN RegisteredSources')]_vars

\* C13 witness: source 1 was unregistered before the running tick, which has
\* charged its only ray for source 2 and is about to deliver
C13_Witness ==
    /\ pc = "apply"
    /\ now = StartTime + 8
    /\ 1 \in UnregisteredIds
    /\ 2 \in Ids
    /\ RegisteredSources[2].LastOcclusionUpdateTime = now
    /\ CurrentBudget.TotalRaysUsed = 1
    /\ \A out \in CallerParams : ~GetSourceParams(1, out).found
    /\ GetSourceParams(2, ResetParams).found

\* C14: the deliveries change only when ApplyParamsToSources runs (and are
\* forgotten when the next tick begins); ApplyParamsToSources delivers exactly
\* once, with its ID and its current parameters, for every entry whose
\* component is alive and whose parameters are valid, and not at all for any
\* other entry.
C14_DeliveredOncePerTick ==
    [][/\ ParamsUpdated' # ParamsUpdated =>
             \/ pc = "apply" /\ pc' = "idle"
             \/ pc = "idle" /\ pc' # "idle" /\ ParamsUpdated' = <<>>
       /\ (pc = "apply" /\ pc' = "idle") =>
             /\ \A id \in Ids :
                   LET e == RegisteredSources[id]
                       n == Cardinality({i \in 1..Len(ParamsUpdated') :
                                           ParamsUpdated'[i].SourceId = id})
                   IN  IF IsLive(e.SourceComponent) /\ e.CurrentParams.bIsValid
                       THEN n = 1 ELSE n = 0
             /\ \A i \in 1..Len(ParamsUpdated') :
                   /\ ParamsUpdated'[i].SourceId \in Ids
                   /\ ParamsUpdated'[i].Params =
                         RegisteredSources[ParamsUpdated'[i].SourceId].CurrentParams]_vars

\* C14 witness: a tick has just delivered for source 2 alone, although the
\* registry holds three entries: the component of source 1 is gone (its
\* parameters are valid) and the parameters of source 3 are not valid
C14_Witness ==
    /\ pc = "idle"
    /\ now = StartTime + 8
    /\ Ids = {1, 2, 3}
    /\ DeliveredIds(ParamsUpdated) = <<2>>
    /\ ParamsUpdated[1].Params = RegisteredSources[2].CurrentParams
    /\ ~IsLive(RegisteredSources[1].SourceComponent)
    /\ RegisteredSources[1].CurrentParams.bIsValid
    /\ IsLive(RegisteredSources[3].SourceComponent)
    /\ ~RegisteredSources[3].CurrentParams.bIsValid

\* the entries whose component the host engine has destroyed
StaleIds == {id \in Ids : ~IsLive(RegisteredSources[id].SourceComponent)}

\* C26: an entry whose owner was destroyed without UnregisterSource is pruned
\* by the next tick: when a tick ends, the registry holds no entry of a
\* destroyed component (so GetSourceParams does not find its ID and the
\* source counts leave it out).
C26_StaleEntryPruned ==
    [][(pc = "apply" /\ pc' = "idle") => StaleIds' = {}]_vars

(***************************************************************************)
(* SpecZones: zones and the listener.  Zone actors are constructed, begin  *)
(* play or are registered directly, are unregistered and destroyed; every  *)
(* tick the listener is refreshed from the view point of the one local     *)
(* player controller.  Two zones overlap at 60, with equal or different    *)
(* priorities.                                                             *)
(***************************************************************************)
\* (Priority, Lo, Hi) of the zones a level may hold
ZoneShapes == {<<0, 0, 100>>, <<0, 50, 200>>, <<1, 50, 200>>}

\* view points of the player: inside both intervals, inside the second
\* only, outside every zone
ViewPoints == {60, 150, 300}

ZonesDeltaTimes == {2, 4}

InitZones ==
    /\ InitEngine(RegistrySettings, IdsProfiles)
    /\ EmptyWorld
    /\ ConstructedEffects
    /\ NetBeginPlay
    /\ probe = NoProbe

NextZones ==
    \/ \E z \in Zones : \E sh \in ZoneShapes : ConstructZone(z, sh[1], sh[2], sh[3])
    \/ \E z \in Zones : ZoneBeginPlay(z)
    \/ \E z \in Zones : RegisterZone(z)
    \/ \E z \in Zones : UnregisterZone(z)
    \/ \E z \in Zones : DestroyZone(z)
    \/ \E dt \in ZonesDeltaTimes : \E v \in ViewPoints : TickBegin(dt, <<v>>)
    \/ OcclusionDone
    \/ ReflectionDone
    \/ ApplyParamsToSources

SpecZones == InitZones /\ [][NextZones]_vars

(***************************************************************************)
(* Properties of zones and listeners, under SpecZones                      *)
(***************************************************************************)
\* the zone a listener was last reported to be in before broadcast k: the
\* NewZoneId of its latest earlier broadcast, -1 if there is none
PreviousZoneId(k) ==
    LET earlier == {j \in 1..(k - 1) :
                      ZoneChanged[j].ListenerIndex = ZoneChanged[k].ListenerIndex}
    IN  IF earlier = {} THEN -1
        ELSE ZoneChanged[CHOOSE j \in earlier : \A i \in earlier : i <= j].NewZoneId

\* C15: every zone-changed broadcast is a transition (old and new differ)
\* and its old zone is the new zone of the listener's previous broadcast, or
\* -1 if there was none; so a listener that stays in one zone while its
\* position is refreshed every tick causes no second broadcast.
C15_ZoneEventsAreTransitions ==
    \A k \in 1..Len(ZoneChanged) :
        /\ ZoneChanged[k].OldZoneId # ZoneChanged[k].NewZoneId
        /\ ZoneChanged[k].OldZoneId = PreviousZoneId(k)

\* position of a zone in RegisteredZones (0 if it is not there)
ZoneIndex(z) ==
    IF \E i \in 1..Len(RegisteredZones) : RegisteredZones[i] = z
    THEN CHOOSE i \in 1..Len(RegisteredZones) : RegisteredZones[i] = z
    ELSE 0

\* the registered zones that exist and contain the location
Candidates(Location) ==
    {z \in Zones : ZoneIndex(z) > 0 /\ ZoneIsLive(z) /\ ContainsPoint(z, Location)}

\* C16: GetZoneAtLocation returns nothing if no registered, existing zone
\* contains the point; otherwise it returns such a zone of the highest
\* priority, the first registered one among those of that priority.  A zone
\* that was unregistered or destroyed is never returned.
C16_ZoneAtLocation ==
    \A Location \in ViewPoints :
        LET z == GetZoneAtLocation(Location)
        IN  IF Candidates(Location) = {} THEN z = NoZoneHandle
            ELSE /\ z \in Candidates(Location)
                 /\ \A y \in Candidates(Location) :
                       /\ zone[y].Priority <= zone[z].Priority
                       /\ zone[y].Priority = zone[z].Priority =>
                             ZoneIndex(z) <= ZoneIndex(y)

\* C16 witness: two registered zones of equal priority contain the
\* listener, whom the tick has put into the one registered first, which is
\* the one constructed second
C16_Witness ==
    /\ pc = "idle"
    /\ Len(RegisteredZones) = 2
    /\ LET y == RegisteredZones[1]
           z == RegisteredZones[2]
       IN  /\ ZoneIsLive(y) /\ ZoneIsLive(z)
           /\ zone[y].Priority = zone[z].Priority
           /\ zone[y].ZoneId > zone[z].ZoneId
           /\ ContainsPoint(y, 60) /\ ContainsPoint(z, 60)
           /\ GetZoneAtLocation(60) = y
           /\ ListenerDataArray[1].Location = 60
           /\ ListenerDataArray[1].CurrentZoneId = zone[y].ZoneId

(***************************************************************************)
(* SpecCache: the occlusion cache.  Three Basic sources share a budget of  *)
(* two rays; ticks come every 2 or 4 frames, so a pass can reach a source  *)
(* 2 or 4 frames (cached) or 6 and more frames (expired) after its last    *)
(* update; ForceSourceUpdate is called at will.                            *)
(***************************************************************************)
CacheProfiles == <<NewComponent(Basic, Normal, FALSE, 2, -1, 100)>>
CacheSettings == {MakeSettings(2, 1, 1)}
CacheDeltaTimes == {2, 4}
CacheOcclusionHits == {RayHit(500, DefaultMaterial)}

InitCache ==
    /\ InitEngine(CacheSettings, CacheProfiles)
    /\ EmptyWorld
    /\ ConstructedEffects
    /\ NetBeginPlay
    /\ probe = NoProbe

NextCache ==
    \/ \E c \in Comps : RegisterSource(c)
    \/ \E id \in 1..MaxSourceId : ForceSourceUpdate(id)
    \/ \E dt \in CacheDeltaTimes : TickBegin(dt, <<>>)
    \/ OcclusionStep(CacheOcclusionHits)
    \/ OcclusionDone
    \/ ReflectionStep({<<>>})
    \/ ReflectionDone
    \/ ApplyParamsToSources

SpecCache == InitCache /\ [][NextCache]_vars

(***************************************************************************)
(* Properties of the occlusion pass, under SpecCache                       *)
(***************************************************************************)
\* the occlusion pass is at the entry id
OcclusionReaches(id) == pc = "occlusion" /\ iter # <<>> /\ Head(iter) = id

\* C17: when the occlusion pass reaches an entry with valid parameters less
\* than OcclusionCacheFrames frames after the time in LastOcclusionUpdateTime
\* (the entry's last occlusion update, unless ForceSourceUpdate has reset
\* it), the step charges nothing and leaves the whole entry, with its
\* update time, current and previous parameters, as it was.
C17_CacheGating ==
    [][\A id \in Ids :
          (/\ OcclusionReaches(id)
           /\ RegisteredSources[id].CurrentParams.bIsValid
           /\ now - RegisteredSources[id].LastOcclusionUpdateTime <
                  Settings.OcclusionCacheFrames)
          => /\ CurrentBudget' = CurrentBudget
             /\ RegisteredSources'[id] = RegisteredSources[id]]_vars

\* C17 witness: the pass has gone by source 1, updated 4 frames ago and
\* valid, without casting a ray, and has traced source 2, whose update of the
\* same time was forgotten by ForceSourceUpdate
C17_Witness ==
    /\ pc = "occlusion"
    /\ iter = <<>>
    /\ Ids = {1, 2}
    /\ RegisteredSources[1].CurrentParams.bIsValid
    /\ RegisteredSources[1].LastOcclusionUpdateTime = now - 4
    /\ RegisteredSources[2].LastOcclusionUpdateTime = now
    /\ RegisteredSources[2].PreviousParams.bIsValid
    /\ CurrentBudget.TotalRaysUsed = 1

\* C18: an occlusion pass that finds the budget exhausted stops: the step
\* changes no entry and charges nothing, and no entry is visited after it.
\* No step of the pass changes an entry it has not reached yet.  So the
\* entries not reached keep everything they had before the pass.
C18_ExhaustionStopsPass ==
    [][pc = "occlusion" /\ iter # <<>> =>
          /\ \A i \in 2..Len(iter) :
                RegisteredSources'[iter[i]] = RegisteredSources[iter[i]]
          /\ (/\ RegisteredSources[Head(iter)].EffectiveLOD # Off
              /\ CurrentBudget.TotalRaysUsed >= CurrentBudget.TotalRaysBudget)
             => /\ iter' = <<>>
                /\ RegisteredSources' = RegisteredSources
                /\ CurrentBudget' = CurrentBudget]_vars

\* C18 witness: the pass has stopped with the budget of two rays spent on
\* sources 1 and 2; source 3, audible and alive, was not reached and still
\* has the parameters of its registration
C18_Witness ==
    /\ pc = "occlusion"
    /\ iter = <<>>
    /\ Ids = {1, 2, 3}
    /\ CurrentBudget.TotalRaysUsed = CurrentBudget.TotalRaysBudget
    /\ RegisteredSources[1].LastOcclusionUpdateTime = now
    /\ RegisteredSources[2].LastOcclusionUpdateTime = now
    /\ RegisteredSources[3].EffectiveLOD # Off
    /\ IsLive(RegisteredSources[3].SourceComponent)
    /\ RegisteredSources[3].LastOcclusionUpdateTime = 0
    /\ RegisteredSources[3].CurrentParams = [ResetParams EXCEPT !.Distance = 100]
    /\ RegisteredSources[3].PreviousParams = ResetParams

(***************************************************************************)
(* SpecLive: ticks that keep occurring.  Three Basic sources are           *)
(* registered and stay; the budget is two rays; a tick comes 4 or 6 frames *)
(* after the one before (OcclusionCacheFrames is 5).  The clock has no     *)
(* bound here: its origin is moved instead.                                *)
(***************************************************************************)
LiveDeltaTimes == {4, 6}

\* FPlatformTime::Seconds() has an arbitrary origin and the engine uses only
\* CurrentTime - LastOcclusionUpdateTime, compared with the cache time.  The
\* origin is moved so that the clock reads StartTime again; an update time
\* that would fall before the origin becomes 0, which is at least
\* StartTime >= OcclusionCacheFrames frames back, as it was before
RebaseTime(t) == Max(t - (now - StartTime), 0)

RebaseClock ==
    /\ pc = "idle"
    /\ now > StartTime
    /\ now' = StartTime
    /\ RegisteredSources' =
          [id \in Ids |->
              [RegisteredSources[id] EXCEPT
                 !.LastOcclusionUpdateTime = RebaseTime(@),
                 !.LastReflectionUpdateTime = RebaseTime(@)]]
    /\ UNCHANGED <<Settings, comp, NextSourceId, CurrentBudget,
                   OcclusionUpdateAccumulator, ReflectionUpdateAccumulator,
                   ZoneUpdateAccumulator, pc, iter, probe, worldVars, eventVars, dspVars, net>>

InitLive ==
    /\ InitEngine(CacheSettings, CacheProfiles)
    /\ EmptyWorld
    /\ ConstructedEffects
    /\ NetBeginPlay
    /\ probe = NoProbe

\* the steps of a tick once it has begun, and the moving of the clock's origin
TickRuns ==
    \/ OcclusionStep(CacheOcclusionHits)
    \/ OcclusionDone
    \/ ReflectionStep({<<>>})
    \/ ReflectionDone
    \/ ApplyParamsToSources
    \/ RebaseClock

\* a tick begins
TickStarts == \E dt \in LiveDeltaTimes : TickBegin(dt, <<>>)

NextLive ==
    \/ \E c \in Comps : RegisterSource(c)
    \/ TickStarts
    \/ TickRuns

\* the core ticker calls TickSubsystem every frame and TickSubsystem returns
\* true ("continue ticking"): an idle engine begins a tick, and a tick that
\* has begun runs to its end
SpecLive ==
    InitLive /\ [][NextLive]_vars /\ WF_vars(TickStarts) /\ WF_vars(TickRuns)

(***************************************************************************)
(* Properties of the ticks that keep occurring, under SpecLive             *)
(***************************************************************************)
\* the occlusion pass has just stopped for the budget without updating the
\* entry id, which is audible and whose component is alive
SkippedForBudget(id) ==
    /\ pc = "occlusion" /\ iter = <<>>
    /\ CurrentBudget.TotalRaysUsed >= CurrentBudget.TotalRaysBudget
    /\ id \in Ids
    /\ RegisteredSources[id].EffectiveLOD # Off
    /\ RegisteredSources[id].bIsAudible
    /\ IsLive(RegisteredSources[id].SourceComponent)
    /\ RegisteredSources[id].LastOcclusionUpdateTime # now

\* C19: a source that an occlusion pass skipped because the budget was
\* exhausted gets an occlusion update in a later tick: its parameters become
\* valid.
C19_SkippedEventuallyUpdated ==
    \A id \in 1..NumComps :
        SkippedForBudget(id) ~>
            (id \in Ids /\ RegisteredSources[id].CurrentParams.bIsValid)

(***************************************************************************)
(* SpecPortal: portals.  Portal actors are constructed with a transition   *)
(* time of 0 or 4 frames; SetOpen and SetOpenness are called with any      *)
(* argument and the actor ticks while its tick is enabled.                 *)
(***************************************************************************)
PortalTransitionTimes == {0, 4}
PortalDeltaTimes == {1, 2}

\* arguments of SetOpenness, in steps of 1/OpennessScale: below 0, the ends,
\* around one half, above 1
OpennessInputs == {-2, 0, 3, 4, 5, OpennessScale, OpennessScale + 2}

InitPortal ==
    /\ InitEngine(RegistrySettings, IdsProfiles)
    /\ EmptyWorld
    /\ ConstructedEffects
    /\ NetBeginPlay
    /\ probe = NoProbe

NextPortal ==
    \/ \E p \in Portals : \E t \in PortalTransitionTimes : ConstructPortal(p, t)
    \/ \E p \in Portals : \E b \in BOOLEAN : SetOpen(p, b)
    \/ \E p \in Portals : \E o \in OpennessInputs : SetOpenness(p, o)
    \/ \E p \in Portals : \E dt \in PortalDeltaTimes : PortalTick(p, dt)

SpecPortal == InitPortal /\ [][NextPortal]_vars

(***************************************************************************)
(* Properties of portals, under SpecPortal                                 *)
(***************************************************************************)
\* C20: in every reachable state of a portal, Openness lies in [0, 1] and
\* bIsOpen equals (Openness > 0.5).
C20_OpenDerivedFromOpenness ==
    \A p \in Portals :
        portal[p].life = "alive" =>
            /\ 0 <= portal[p].Openness
            /\ portal[p].Openness <= OpennessScale
            /\ portal[p].bIsOpen = MoreThanHalfOpen(portal[p].Openness)


(***************************************************************************)
(* SpecPortalLive: the portals of SpecPortal, ticked by the host engine.   *)
(* An actor whose tick is enabled is ticked every frame, so the tick of a  *)
(* portal is taken under weak fairness.                                    *)
(***************************************************************************)
PortalTicks(p) == \E dt \in PortalDeltaTimes : PortalTick(p, dt)

SpecPortalLive ==
    InitPortal /\ [][NextPortal]_vars /\ \A p \in Portals : WF_vars(PortalTicks(p))

\* a call of SetOpen or SetOpenness on portal p that changes something
PortalCall(p) ==
    \/ \E b \in BOOLEAN : SetOpen(p, b)
    \/ \E o \in OpennessInputs : SetOpenness(p, o)

\* portal p is at its target and its tick is disabled
PortalSettled(p) ==
    portal[p].life = "alive" =>
        /\ portal[p].Openness = portal[p].TargetOpenness
        /\ ~portal[p].TickEnabled

\* C21: a transition tick with delta d of a portal with TransitionTime > 0
\* moves Openness towards the target by min(d / TransitionTime, remaining
\* distance) and leaves the target alone; unless SetOpen or SetOpenness keep
\* being called, Openness eventually equals the target and the tick is then
\* disabled; a portal with TransitionTime = 0 is at its target whenever
\* SetOpen has returned.
C21_TransitionTowardsTarget ==
    /\ [][\A p \in Portals :
            \A dt \in PortalDeltaTimes :
                (PortalTick(p, dt) /\ portal[p].TransitionTime > 0)
                => LET o == portal[p].Openness
                       t == portal[p].TargetOpenness
                       rate == (OpennessScale * dt) \div portal[p].TransitionTime
                   IN  /\ portal'[p].TargetOpenness = t
                       /\ portal'[p].Openness =
                              IF o < t THEN o + Min(rate, t - o)
                                       ELSE o - Min(rate, o - t)]_vars
    /\ \A p \in Portals :
           \/ []<><<PortalCall(p)>>_vars
           \/ <>[]PortalSettled(p)
    /\ [](\A p \in Portals :
             (portal[p].life = "alive" /\ portal[p].TransitionTime = 0)
                 => portal[p].Openness = portal[p].TargetOpenness)

\* a portal with a transition time, closing after SetOpen(false), one tick
\* of 1 frame into the transition
C21_Witness ==
    \E p \in Portals :
        /\ portal[p].life = "alive"
        /\ portal[p].TransitionTime > 0
        /\ portal[p].TickEnabled
        /\ ~portal[p].bIsOpen
        /\ portal[p].TargetOpenness = 0
        /\ portal[p].Openness = OpennessScale - 2


(***************************************************************************)
(* SpecReverb: the zone reverb effect with the two sides taking turns.     *)
(* The preset is given settings with an RT60 of 1 s or 4 s and a blend     *)
(* time of 0 or 0.5 s (RT60 stays within its declared range of 0.1 s to    *)
(* 20 s); audio blocks last 0.1 s or 0.25 s.                               *)
(***************************************************************************)
ReverbSettings == {[RT60 |-> r, BlendTime |-> b] : r \in {100, 400}, b \in {0, 50}}

ReverbFrameTimes == {10, 25}

InitReverb ==
    /\ InitEngine(RegistrySettings, IdsProfiles)
    /\ EmptyWorld
    /\ ConstructedEffects
    /\ NetBeginPlay
    /\ probe = NoProbe

NextReverb ==
    \/ \E s \in ReverbSettings : OnPresetChanged(s)
    \/ \E s \in ReverbSettings : SetTargetSettings(s)
    \/ \E ft \in ReverbFrameTimes : OnProcessAudio(ft)

SpecReverb == InitReverb /\ [][NextReverb]_vars

(***************************************************************************)
(* Properties of the zone reverb effect, under SpecReverb                  *)
(***************************************************************************)
\* C22: the first OnPresetChanged after Init applies the preset at once:
\* after it the current settings are the preset's and no blend is in
\* progress.
C22_FirstAssignmentImmediate ==
    [][\A s \in ReverbSettings :
          (reverb = ConstructedReverb /\ OnPresetChanged(s))
          => (reverb'.CurrentSettings = s /\ ~reverb'.bIsBlending)]_vars

\* the blend time that is in force while the effect blends
BlendTimeInForce == Max(reverb.CurrentSettings.BlendTime, BlendTimeFloor)

\* C23: BlendProgress stays within [0, 1]; while a blend is in progress,
\* BlendProgress is the audio time elapsed since the parameter change over
\* the blend time, and the settings the latest block used are
\* old + alpha * (new - old) for that alpha; a block never lowers
\* BlendProgress; when the blend time has elapsed the blend has ended and
\* the current settings, and those the block used, are the target's; a
\* block leaves an ended blend ended.
C23_LinearBlend ==
    /\ [](/\ 0 <= reverb.BlendProgress
          /\ reverb.BlendProgress <= ProgressScale
          /\ (reverb.bIsBlending /\ audio.Elapsed > 0) =>
                /\ audio.Elapsed < BlendTimeInForce
                /\ reverb.BlendProgress * BlendTimeInForce
                       = ProgressScale * audio.Elapsed
                /\ ProgressScale * (audio.ActiveSettings.RT60 - reverb.CurrentSettings.RT60)
                       = reverb.BlendProgress *
                           (reverb.TargetSettings.RT60 - reverb.CurrentSettings.RT60)
          /\ (~reverb.bIsBlending /\ audio.Elapsed > 0) =>
                /\ reverb.CurrentSettings = reverb.TargetSettings
                /\ audio.ActiveSettings = reverb.TargetSettings)
    /\ [][\A ft \in ReverbFrameTimes :
             OnProcessAudio(ft) =>
                /\ reverb'.BlendProgress >= reverb.BlendProgress
                /\ ~reverb.bIsBlending => ~reverb'.bIsBlending
                /\ (reverb.bIsBlending /\ audio.Elapsed + ft >= BlendTimeInForce)
                       => ~reverb'.bIsBlending]_vars

\* RT60 blending from 1.0 s to 4.0 s over 0.5 s, 0.25 s after the change:
\* the block used 2.5 s
C23_Witness ==
    /\ reverb.bIsBlending
    /\ reverb.CurrentSettings = [RT60 |-> 100, BlendTime |-> 50]
    /\ reverb.TargetSettings.RT60 = 400
    /\ audio.Elapsed = 25
    /\ reverb.BlendProgress = 50
    /\ audio.ActiveSettings.RT60 = 250


(***************************************************************************)
(* SpecReverbRace: the zone reverb effect with SetTargetSettings called    *)
(* from the simulation side while the audio side processes blocks.         *)
(***************************************************************************)
InitReverbRace ==
    /\ InitEngine(RegistrySettings, IdsProfiles)
    /\ EmptyWorld
    /\ ConstructedEffects
    /\ NetBeginPlay
    /\ probe = NoProbe

NextReverbRace ==
    \/ \E s \in ReverbSettings : WriterCall(s)
    \/ WriteTargetSettings
    \/ WriteIsBlending
    \/ WriteBlendProgress
    \/ \E ft \in ReverbFrameTimes : BlockBegin(ft)
    \/ BlockUpdateBlend
    \/ BlockActiveSettings

SpecReverbRace == InitReverbRace /\ [][NextReverbRace]_vars

\* SetTargetSettings has written a new TargetSettings and has still to write
\* bIsBlending or BlendProgress, which are not yet what it will make them:
\* the triple in the effect is neither the one the call found nor the one it
\* will leave
PartlyWritten ==
    /\ writer.pc \in {"bIsBlending", "BlendProgress"}
    /\ writer.InSettings # writer.Old.TargetSettings
    /\ <<reverb.bIsBlending, reverb.BlendProgress>> # <<TRUE, 0>>

\* C24: under every interleaving, the steps of an audio block that read
\* TargetSettings, bIsBlending and BlendProgress (UpdateBlend and the choice
\* of the block's settings) read a triple that is wholly the old one or
\* wholly the new one.
C24_NoTearing ==
    [][(BlockUpdateBlend \/ BlockActiveSettings) => ~PartlyWritten]_vars


(***************************************************************************)
(* SpecReentrant: ticks whose broadcasts run handlers that unregister.     *)
(* Three Basic sources are registered by direct calls, one zone may be     *)
(* placed around the player; the handler of a zone-changed broadcast may   *)
(* call UnregisterSource, the handler of a params-updated broadcast may    *)
(* call UnregisterSource and UnregisterZone, for any source and zone.      *)
(* Nothing else unregisters a source.                                      *)
(***************************************************************************)
ReentrantDeltaTimes == {4}
ReentrantViewPoints == {60, 300}

\* the handle of the one zone actor of the level
ReentrantZone == 1

InitReentrant ==
    /\ InitEngine(RegistrySettings, IdsProfiles)
    /\ EmptyWorld
    /\ ConstructedEffects
    /\ NetBeginPlay
    /\ probe = NoProbe

NextReentrant ==
    \/ \E c \in Comps : RegisterSource(c)
    \/ ConstructZone(ReentrantZone, 0, 0, 100)
    \/ ZoneBeginPlay(ReentrantZone)
    \/ \E dt \in ReentrantDeltaTimes : \E v \in ReentrantViewPoints :
          \E u \in 0..MaxSourceId : TickBeginHandled(dt, <<v>>, u)
    \/ OcclusionStep(EventsOcclusionHits)
    \/ OcclusionDone
    \/ ReflectionStep({<<>>})
    \/ ReflectionDone
    \/ ApplyBegin
    \/ \E u \in 0..MaxSourceId : \E z \in {NoZoneHandle, ReentrantZone} :
          ApplyVisit(u, z)
    \/ ApplyDone

SpecReentrant == InitReentrant /\ [][NextReentrant]_vars

\* the number of deliveries of the tick that carry the ID id
DeliveriesTo(id) ==
    Cardinality({k \in 1..Len(ParamsUpdated) : ParamsUpdated[k].SourceId = id})

NetViewPoints == {SourceLocation, 8}
NetLODs == {Off, Basic}
NetImportances == {Normal, Important}

InitNet ==
    /\ InitEngine(RegistrySettings, IdsProfiles)
    /\ EmptyWorld
    /\ ConstructedEffects
    /\ NetBeginPlay
    /\ probe = NoProbe

NextNet ==
    \/ \E e \in Endpoints, Location \in NetViewPoints : MoveView(e, Location)
    \/ \E e \in Endpoints : EndpointTick(e)
    \/ \E e \in Endpoints, o \in Endpoints : UpdateListenerPosition(e, o)
    \/ \E bPlay \in BOOLEAN : Server_SetPlaying(bPlay)
    \/ \E NewLOD \in NetLODs : Server_SetAcousticLOD(NewLOD)
    \/ \E NewImportance \in NetImportances : SetImportance(NewImportance)
    \/ ReplicationTick
    \/ \E e \in Endpoints : OnRep_AudioState(e)
    \/ \E bOpen \in BOOLEAN : Server_SetOpen(bOpen)
    \/ \E e \in Endpoints : OnRep_PortalState(e)

SpecNet == InitNet /\ [][NextNet]_vars

(***************************************************************************)
(* Properties of the network game, under SpecNet                           *)
(***************************************************************************)
\* the fields of the replicated state: the minimal state and nothing else
MinimalState ==
    {"bIsPlaying", "bIsLooping", "BaseLoudness", "AcousticLOD",
     "bIsHeroSource", "Importance", "PlaybackPosition"}

\* what the replicated state of endpoint e says about the source, as the
\* linked source holds it once the state is applied
AppliedAt(e) ==
    ApplyReplicatedState(net[e].ReplicatedState, net[e].Source)

MasterSettings ==
    [bEnabled : BOOLEAN, LimiterThresholdDb : {-1, -6}]

MasterSamples == {0, AmpScale \div 2, -AmpScale, 2 * AmpScale}

InitMaster ==
    /\ InitEngine(RegistrySettings, IdsProfiles)
    /\ EmptyWorld
    /\ ConstructedEffects
    /\ NetBeginPlay
    /\ probe = NoProbe

NextMaster ==
    \/ \E s \in MasterSettings : MasterPresetChanged(s)
    \/ \E In \in MasterSamples : MasterProcessAudio(In)

SpecMaster == InitMaster /\ [][NextMaster]_vars

(***************************************************************************)
(* Properties of the master effect, under SpecMaster                       *)
(***************************************************************************)
\* C28: a frame that the enabled stage has processed leaves it no louder
\* than the limiter threshold of that call, whatever the samples before it
\* and whatever the envelope was; a frame that the disabled stage has
\* processed leaves it as it came in.
C28_PeakBelowThreshold ==
    /\ master.Frame.bEnabled =>
          Abs(master.Frame.Out) <= master.Frame.LimiterThreshold
    /\ ~master.Frame.bEnabled => master.Frame.Out = master.Frame.In

(***************************************************************************)
(* SpecOcclusion: what an occlusion update writes.  Two sources are        *)
(* traced every tick (the cache lasts two frames); the realism factor is   *)
(* any of five values and a ray is clear or hits a material that lets      *)
(* through nothing, part or all of the sound.                              *)
(***************************************************************************)
OcclusionProfiles == <<NewComponent(Advanced, Normal, FALSE, 2, -1, 100)>>
RealismFactors == {0, 30, 70, 100}
OcclusionSettings ==
    {[MakeSettings(4, 1, 1) EXCEPT !.RealismFactor = r, !.OcclusionCacheFrames = 2] :
        r \in RealismFactors}
Transmissions == {0, 40, 100}
OcclusionHits ==
    {NoHit} \cup {RayHit(500, [DefaultMaterial EXCEPT !.Transmission = t]) :
                     t \in Transmissions}
OcclusionDeltaTimes == {2, 4}
OcclusionReflectionHits == {<<>>, <<RayHit(300, DefaultMaterial)>>}

InitOcclusion ==
    /\ InitEngine(OcclusionSettings, OcclusionProfiles)
    /\ EmptyWorld
    /\ ConstructedEffects
    /\ NetBeginPlay
    /\ probe = NoProbe

NextOcclusion ==
    \/ \E c \in 1..2 : RegisterSource(c)
    \/ \E dt \in OcclusionDeltaTimes : TickBegin(dt, <<>>)
    \/ OcclusionStep(OcclusionHits)
    \/ OcclusionDone
    \/ ReflectionStep(OcclusionReflectionHits)
    \/ ReflectionDone
    \/ ApplyParamsToSources

SpecOcclusion == InitOcclusion /\ [][NextOcclusion]_vars

(***************************************************************************)
(* Properties of the occlusion update, under SpecOcclusion                 *)
(***************************************************************************)
\* the step is the occlusion update of the entry id
OcclusionUpdates(id) ==
    /\ OcclusionReaches(id)
    /\ CurrentBudget'.OcclusionRays = CurrentBudget.OcclusionRays + 1

\* C29: an occlusion update whose ray hit a material of transmission t under
\* the realism factor r writes the occlusion clamp01((1 - t) * r) and the
\* transmission gain (1 - occlusion) + occlusion * t, both between 0 and 1; a
\* clear ray writes occlusion 0 and gain 1; t = 0 under r = 0.7 writes
\* occlusion 0.7 and gain 0.3.
C29_OcclusionAndGain ==
    [][\A id \in Ids, hit \in OcclusionHits :
          (/\ OcclusionUpdates(id)
           /\ RegisteredSources'[id] = OcclusionUpdate(RegisteredSources[id], hit))
          => LET t == hit.Material.Transmission
                 r == Settings.RealismFactor
                 written == RegisteredSources'[id].CurrentParams
                 occlusion == Clamp(((100 - t) * r) \div 100, 0, 100)
             IN  /\ written.Occlusion \in 0..100
                 /\ written.TransmissionGain \in 0..100
                 /\ hit.bIsValidHit =>
                       /\ written.Occlusion = occlusion
                       /\ written.TransmissionGain =
                              (100 - occlusion) + (occlusion * t) \div 100
                 /\ ~hit.bIsValidHit =>
                       /\ written.Occlusion = 0
                       /\ written.TransmissionGain = 100
                 /\ (hit.bIsValidHit /\ t = 0 /\ r = 70) =>
                       /\ written.Occlusion = 70
                       /\ written.TransmissionGain = 30]_vars

\* C29 witness: under realism 0.7 one source was traced through a material
\* that lets nothing through and holds occlusion 0.7 and gain 0.3, the other
\* was traced with a clear ray
C29_Witness ==
    /\ Settings.RealismFactor = 70
    /\ Ids = {1, 2}
    /\ RegisteredSources[1].CurrentParams.bIsValid
    /\ RegisteredSources[1].CurrentParams.Occlusion = 70
    /\ RegisteredSources[1].CurrentParams.TransmissionGain = 30
    /\ RegisteredSources[2].CurrentParams.bIsValid
    /\ RegisteredSources[2].CurrentParams.Occlusion = 0
    /\ RegisteredSources[2].CurrentParams.TransmissionGain = 100

\* C30: an occlusion update of an entry leaves in PreviousParams what
\* CurrentParams held when the step began, and every other step (the
\* reflection update of the entry with it) leaves its PreviousParams alone.
C30_PreviousParamsSnapshot ==
    [][\A id \in Ids :
          id \in DOMAIN RegisteredSources' =>
             IF OcclusionUpdates(id)
             THEN RegisteredSources'[id].PreviousParams =
                      RegisteredSources[id].CurrentParams
             ELSE RegisteredSources'[id].PreviousParams =
                      RegisteredSources[id].PreviousParams]_vars

\* C30 witness: a source was traced twice with different results and its
\* reflections were updated in between: the previous params are valid, hold
\* the first occlusion and the reflections of that time
C30_Witness ==
    \E id \in Ids :
       /\ RegisteredSources[id].PreviousParams.bIsValid
       /\ RegisteredSources[id].CurrentParams.bIsValid
       /\ RegisteredSources[id].PreviousParams.Occlusion #
              RegisteredSources[id].CurrentParams.Occlusion
       /\ RegisteredSources[id].PreviousParams.EarlyReflections.ValidTapCount > 0

(***************************************************************************)
(* SpecReflect: the reflection pass.  Two sources configured Advanced      *)
(* stand at 100; only one Advanced slot exists, so the other is Basic.     *)
(* The player is at the sources, beyond BasicLODDistance or beyond         *)
(* OffLODDistance.  A small room or an underwater zone covers the sources. *)
(* A reflection sample finds no hit, one hit or eighteen hits.             *)
(***************************************************************************)
ReflectProfiles == <<NewComponent(Advanced, Normal, FALSE, 2, -1, 100)>>
ReflectSettings ==
    {[MakeSettings(20, 1, 1) EXCEPT !.AdvancedReflectionRays = 18]}
ReflectViewPoints == {100, 4000, 9000}
ReflectDeltaTimes == {2, 4}
\* ZonePresets::ApplyPreset: DefaultReverbSend of SmallRoom (0.25f) and of
\* Underwater (0.7f)
ZoneTypeSends == {500, 1400}
ReflectZone == 1
ManyHits == [i \in 1..18 |-> RayHit(100 + 10 * i, DefaultMaterial)]
ReflectHits == {<<>>, <<RayHit(300, DefaultMaterial)>>, ManyHits}

InitReflect ==
    /\ InitEngine(ReflectSettings, ReflectProfiles)
    /\ EmptyWorld
    /\ ConstructedEffects
    /\ NetBeginPlay
    /\ probe = NoProbe

NextReflect ==
    \/ \E c \in 1..2 : RegisterSource(c)
    \/ \E Send \in ZoneTypeSends : ConstructZoneOfType(ReflectZone, 0, 0, 3000, Send)
    \/ ZoneBeginPlay(ReflectZone)
    \/ \E dt \in ReflectDeltaTimes : \E v \in ReflectViewPoints : TickBegin(dt, <<v>>)
    \/ OcclusionStep({NoHit})
    \/ OcclusionDone
    \/ ReflectionStep(ReflectHits)
    \/ ReflectionDone
    \/ ApplyParamsToSources

SpecReflect == InitReflect /\ [][NextReflect]_vars

\* the default reverb send of the preset current for listener 0: the zone
\* around the listener when it is registered and usable, the default
\* preset otherwise
ListenerZoneSend ==
    IF /\ Len(ListenerDataArray) > 0
       /\ \E k \in 1..Len(RegisteredZones) : RegisteredZones[k] = ReflectZone
       /\ ZoneUsable(ReflectZone)
       /\ ContainsPoint(ReflectZone, ListenerDataArray[1].Location)
    THEN zone[ReflectZone].DefaultReverbSend
    ELSE DefaultReverbSend

\* C31: in a reflection pass a source whose effective LOD is Basic is
\* charged no rays, gets the default reverb send of the zone preset current
\* for listener 0 and loses all its early-reflection taps (valid tap count
\* 0, density 0); a source whose effective LOD is Off is left unchanged
C31_BasicZoneReverb ==
    [][(pc = "reflection" /\ iter # <<>> /\ iter' = Tail(iter)) =>
        LET id == Head(iter)
            e == RegisteredSources[id]
            after == RegisteredSources'[id]
        IN  /\ e.EffectiveLOD = Basic =>
                /\ CurrentBudget' = CurrentBudget
                /\ after.CurrentParams.ReverbSend = ListenerZoneSend
                /\ after.CurrentParams.EarlyReflections.Taps = <<>>
                /\ after.CurrentParams.EarlyReflections.ValidTapCount = 0
                /\ after.CurrentParams.EarlyReflections.ReflectionDensity = 0
            /\ e.EffectiveLOD = Off =>
                /\ CurrentBudget' = CurrentBudget
                /\ RegisteredSources' = RegisteredSources]_vars

\* a Basic source that was sampled as an Advanced one earlier has been
\* passed by the reflection pass inside the zone: its send is the zone's
C31_Witness ==
    /\ pc = "reflection"
    /\ \E id \in Ids :
          /\ \A k \in 1..Len(iter) : iter[k] # id
          /\ RegisteredSources[id].EffectiveLOD = Basic
          /\ RegisteredSources[id].LastReflectionUpdateTime > 0
          /\ RegisteredSources[id].CurrentParams.ReverbSend = ListenerZoneSend
          /\ ListenerZoneSend # DefaultReverbSend
          /\ RegisteredSources[id].CurrentParams.EarlyReflections.ValidTapCount = 0

\* C36: the reverb send of every source stays within [0,1], also after the
\* reflection update lerp(send, 1.5 * send, density) of an Advanced or Hero
\* source
C36_ReverbSendInRange ==
    \A id \in Ids :
        /\ RegisteredSources[id].CurrentParams.ReverbSend >= 0
        /\ RegisteredSources[id].CurrentParams.ReverbSend <= 2000

\* C38: after every tick a source whose effective LOD is Basic or Off
\* carries no early-reflection tap
C38_NoTapsBelowAdvanced ==
    pc = "idle" =>
        \A id \in Ids :
            RegisteredSources[id].EffectiveLOD \in {Basic, Off} =>
                RegisteredSources[id].CurrentParams.EarlyReflections.ValidTapCount = 0

(***************************************************************************)
(* SpecCluster: ClusterReflections on the tap array as the code holds it,  *)
(* MaxTaps slots of which the first ValidTapCount are valid.  The tap set  *)
(* handed in is a fresh one or one an earlier clustering filled.           *)
(***************************************************************************)
\* FReflectionTap as constructed
DefaultTap ==
    [DelayMs |-> 0, Gain |-> 0, LPFCutoff |-> DefaultLPFCutoff, bIsValid |-> FALSE]

\* FEarlyReflectionParams as constructed: "Taps.SetNum(MaxTaps)"
ConstructedReflections ==
    [Taps |-> [i \in 1..MaxTaps |-> DefaultTap],
     ValidTapCount |-> 0, ReflectionDensity |-> 0]

\* mutant: Reset zeroes the counters and leaves the taps
ResetReflections_KeepTaps(p) ==
    [p EXCEPT !.ValidTapCount = 0, !.ReflectionDensity = 0]

\* FEarlyReflectionParams::Reset
ResetReflections(p) ==
    [Taps |-> [i \in 1..Len(p.Taps) |-> DefaultTap],
     ValidTapCount |-> 0, ReflectionDensity |-> 0]

\* ClusterReflections(Hits, OutParams): the value of OutParams afterwards
ClusterReflectionsInto(OutParams, Hits) ==
    LET cleared == ResetReflections(OutParams)
    IN  IF Len(Hits) = 0 THEN cleared
        ELSE LET SortedHits == SortHits(Hits)
                 NumTaps == Min(Len(SortedHits), MaxTaps)
             IN  [Taps |-> [i \in 1..Len(cleared.Taps) |->
                               IF i <= NumTaps THEN MakeTap(SortedHits[i])
                               ELSE cleared.Taps[i]],
                  ValidTapCount |-> NumTaps,
                  ReflectionDensity |-> Clamp(Len(Hits), 0, 20)]

CarpetMaterial == [DefaultMaterial EXCEPT !.HighAbsorption = 80]
ClusterDistances == {150, 300, 2000}
ShortHitLists ==
    UNION {[1..n -> {RayHit(d, DefaultMaterial) : d \in ClusterDistances}] : n \in 0..3}
LongHitLists ==
    {[i \in 1..8 |-> RayHit(900 - 100 * i, DefaultMaterial)],
     [i \in 1..9 |-> RayHit(IF i = 2 THEN 50 ELSE 100 * i, CarpetMaterial)],
     [i \in 1..12 |-> RayHit(100 + 70 * ((i * 5) % 12), DefaultMaterial)]}
ClusterHitLists == ShortHitLists \cup LongHitLists
PreviousTapSets ==
    {ConstructedReflections}
    \cup {ClusterReflectionsInto(ConstructedReflections, h) :
            h \in {<<RayHit(300, CarpetMaterial)>>,
                   [i \in 1..3 |-> RayHit(400 * i, CarpetMaterial)],
                   [i \in 1..10 |-> RayHit(40 * i, CarpetMaterial)]}}

InitCluster ==
    /\ InitEngine({MakeSettings(8, 1, 1)}, ReflectProfiles)
    /\ EmptyWorld
    /\ ConstructedEffects
    /\ NetBeginPlay
    /\ \E before \in PreviousTapSets : \E hits \in ClusterHitLists :
          probe = [phase |-> "input", OutParams |-> before, Hits |-> hits]

Cluster ==
    /\ probe.phase = "input"
    /\ probe' = [phase |-> "clustered", OutParams |-> probe.OutParams,
                 Hits |-> probe.Hits,
                 Result |-> ClusterReflectionsInto(probe.OutParams, probe.Hits)]
    /\ UNCHANGED <<engineVars, worldVars, eventVars, dspVars, net>>

NextCluster == Cluster

SpecCluster == InitCluster /\ [][NextCluster]_vars

\* the number of hits nearer than d, and no farther than d
HitsNearer(hits, d) == Cardinality({k \in 1..Len(hits) : hits[k].Distance < d})
HitsWithin(hits, d) == Cardinality({k \in 1..Len(hits) : hits[k].Distance <= d})

\* C32: clustering H hits rebuilds the tap set wholesale: the valid tap
\* count is min(H, 8); the taps below the count are valid, belong to the
\* min(H, 8) nearest hits and are in non-decreasing delay order; the taps
\* from the count on are invalid with default values; with no hit the count
\* and the density are 0 and every tap is invalid, whatever was there before
C32_ClusterRebuildsTaps ==
    probe.phase = "clustered" =>
        LET hits == probe.Hits
            H == Len(hits)
            r == probe.Result
            n == r.ValidTapCount
        IN  /\ Len(r.Taps) = MaxTaps
            /\ n = Min(H, 8)
            /\ r.ReflectionDensity = Min(H, 20)
            /\ \A i \in 1..n :
                  /\ r.Taps[i].bIsValid
                  /\ \E k \in 1..H :
                        /\ r.Taps[i] = MakeTap(hits[k])
                        /\ HitsNearer(hits, hits[k].Distance) < i
                        /\ i <= HitsWithin(hits, hits[k].Distance)
                  /\ i < n => r.Taps[i].DelayMs <= r.Taps[i + 1].DelayMs
            /\ \A i \in (n + 1)..MaxTaps : r.Taps[i] = DefaultTap
            /\ H = 0 => r = ConstructedReflections
            \* the engine model keeps the valid taps only
            /\ ClusterReflections(hits).Taps = SubSeq(r.Taps, 1, n)
            /\ ClusterReflections(hits).ValidTapCount = n
            /\ ClusterReflections(hits).ReflectionDensity = r.ReflectionDensity

\* a tap set with eight valid taps was clustered with three hits, and one
\* with valid taps was clustered with no hit
C32_Witness ==
    /\ probe.phase = "clustered"
    /\ probe.OutParams.ValidTapCount = 8
    /\ Len(probe.Hits) = 3
    /\ probe.Hits[1].Distance > probe.Hits[2].Distance
    /\ probe.Result.ValidTapCount = 3
    /\ ~probe.Result.Taps[4].bIsValid

(***************************************************************************)
(* SpecCadence: the rate limits of the passes.  Ticks of 1, 2 or 3 frames  *)
(* against intervals of 2 (occlusion), 3 (zone) and 4 (reflection) frames; *)
(* one source, one zone around it, the player at the source or far away.   *)
(***************************************************************************)
CadenceDeltaTimes == {1, 2, 3}
CadenceViewPoints == {100, 4000}

InitCadence ==
    /\ InitEngine({MakeSettings(8, 1, 1)}, ReflectProfiles)
    /\ EmptyWorld
    /\ ConstructedEffects
    /\ NetBeginPlay
    /\ probe = NoProbe

NextCadence ==
    \/ RegisterSource(1)
    \/ ConstructZone(ReflectZone, 0, 0, 3000)
    \/ ZoneBeginPlay(ReflectZone)
    \/ \E dt \in CadenceDeltaTimes : \E v \in CadenceViewPoints : TickBegin(dt, <<v>>)
    \/ OcclusionStep({NoHit})
    \/ OcclusionDone
    \/ ReflectionStep({<<>>, <<RayHit(300, DefaultMaterial)>>})
    \/ ReflectionDone
    \/ ApplyParamsToSources

SpecCadence == InitCadence /\ [][NextCadence]_vars

\* the zone pass of this tick refreshed listener 0
ZonePassRan ==
    ListenerDataArray'[1].CurrentZoneId =
        IF /\ \E k \in 1..Len(RegisteredZones) : RegisteredZones[k] = ReflectZone
           /\ ZoneUsable(ReflectZone)
           /\ ContainsPoint(ReflectZone, ListenerDataArray'[1].Location)
        THEN zone[ReflectZone].ZoneId ELSE -1

\* C33: priorities and effective LODs are recomputed in every tick; the
\* zone, occlusion and reflection passes each run in a tick iff the delta
\* times accumulated since the pass last ran, the current one included,
\* reach the interval of the pass, and the accumulator of a pass is reset
\* exactly when the pass runs; the order within a tick is scheduling, zone
\* check, occlusion, reflection, distribution
C33_Cadence ==
    [][/\ (pc = "idle" /\ pc' # "idle") =>
            LET dt == now' - now
                zoneDue == ZoneUpdateAccumulator + dt >= Settings.ZoneInterval
                occlusionDue == OcclusionUpdateAccumulator + dt >= Settings.OcclusionInterval
                reflectionDue == ReflectionUpdateAccumulator + dt >= Settings.ReflectionInterval
            IN  \* scheduling, every tick
                /\ \A id \in Ids :
                      LET d == Abs(comp[RegisteredSources[id].SourceComponent].Location
                                     - ListenerDataArray'[1].Location)
                      IN  /\ RegisteredSources'[id].CurrentParams.Distance = Max(d, MinDistance)
                          /\ RegisteredSources'[id].EffectiveLOD =
                                IF d > Settings.BasicLODDistance THEN Basic ELSE Advanced
                \* the zone check
                /\ ZoneUpdateAccumulator' = IF zoneDue THEN 0 ELSE ZoneUpdateAccumulator + dt
                /\ zoneDue => ZonePassRan
                /\ ~zoneDue => ListenerDataArray'[1].CurrentZoneId = -1
                \* the first pass over the sources
                /\ pc' = IF occlusionDue THEN "occlusion"
                         ELSE IF reflectionDue THEN "reflection" ELSE "apply"
                /\ OcclusionUpdateAccumulator' = OcclusionUpdateAccumulator + dt
                /\ ReflectionUpdateAccumulator' = ReflectionUpdateAccumulator + dt
       /\ (pc = "occlusion" /\ pc' # "occlusion") =>
            /\ OcclusionUpdateAccumulator' = 0
            /\ ReflectionUpdateAccumulator' = ReflectionUpdateAccumulator
            /\ pc' = IF ReflectionUpdateAccumulator >= Settings.ReflectionInterval
                     THEN "reflection" ELSE "apply"
       /\ (pc = "reflection" /\ pc' # "reflection") =>
            /\ ReflectionUpdateAccumulator' = 0
            /\ pc' = "apply"
       /\ pc = "apply" => pc' = "idle"
       \* an accumulator changes at the start of a tick and at the end of
       \* its pass only
       /\ (OcclusionUpdateAccumulator' # OcclusionUpdateAccumulator) =>
            (pc = "idle" \/ (pc = "occlusion" /\ pc' # "occlusion"))
       /\ (ReflectionUpdateAccumulator' # ReflectionUpdateAccumulator) =>
            (pc = "idle" \/ (pc = "reflection" /\ pc' # "reflection"))
       /\ (ZoneUpdateAccumulator' # ZoneUpdateAccumulator) => pc = "idle"
      ]_vars

\* a tick in which the reflection accumulator has just reached its interval
\* after three short ticks without a reflection pass, the source rescheduled
\* to Basic meanwhile
C33_Witness ==
    /\ pc = "reflection"
    /\ ReflectionUpdateAccumulator = Settings.ReflectionInterval
    /\ now >= StartTime + 4
    /\ OcclusionUpdateAccumulator = 1
    /\ ZoneUpdateAccumulator = 1
    /\ \E id \in Ids : RegisteredSources[id].EffectiveLOD = Basic

(***************************************************************************)
(* SpecScore: ComputePriorityScore applied to one component, next to the   *)
(* source of the documented example: loudness 1, Normal importance, no     *)
(* hero flag, 50 units from the listener.                                  *)
(***************************************************************************)
ExampleSource == NewComponent(Advanced, Normal, FALSE, 2, -1, 50)
ScoreInputs ==
    {NewComponent(Advanced, imp, hero, loud, over, loc) :
        imp \in Importances, hero \in BOOLEAN, loud \in {1, 2, 4},
        over \in {-1, 0, 3}, loc \in {0, 1, 50, 100, 4000}}

InitScore ==
    /\ InitEngine(RegistrySettings, RegistryProfiles)
    /\ EmptyWorld
    /\ ConstructedEffects
    /\ NetBeginPlay
    /\ \E a \in ScoreInputs :
          probe = [phase |-> "input", a |-> a, b |-> ExampleSource]

NextScore == ScoreProbe

SpecScore == InitScore /\ [][NextScore]_vars

\* C34: without manual override and with non-Critical importance the score
\* is baseLoudness * (100 / max(distance, 1)) * m, with m = 0.25 for
\* Background, 1 for Normal and 2 for Important, times 100 for a hero
\* source; loudness 1 at distance 50 with Normal importance scores 2.0; a
\* distance of 0 divides by 1.  Scores are in 1/ScoreScale, loudness in
\* halves; the equation is multiplied through by the distance.
C34_PriorityScore ==
    probe.phase = "scored" =>
        /\ (probe.a.PriorityOverride < 0 /\ probe.a.Importance # Critical) =>
              LET d == IF probe.a.Location > 1 THEN probe.a.Location ELSE 1
                  m == IF probe.a.Importance = Background THEN 1
                       ELSE IF probe.a.Importance = Normal THEN 4 ELSE 8
                  h == IF probe.a.IsHero THEN 100 ELSE 1
              IN  probe.scoreA * d = probe.a.BaseLoudness * 100 * 200 * m * h
        /\ probe.scoreB = 2 * ScoreScale

\* an Important hero source on top of the listener
C34_Witness ==
    /\ probe.phase = "scored"
    /\ probe.a.PriorityOverride < 0
    /\ probe.a.Importance = Important
    /\ probe.a.IsHero
    /\ probe.a.Location = 0
    /\ probe.a.BaseLoudness = 2
    /\ probe.scoreA = 200 * 100 * ScoreScale

\* the entry id had an occlusion update and ForceSourceUpdate(id) came after
\* it: the parameters are valid and the update time is forgotten
Forced(id) ==
    /\ RegisteredSources[id].CurrentParams.bIsValid
    /\ RegisteredSources[id].LastOcclusionUpdateTime = 0

\* C35: after ForceSourceUpdate(id) on a registered source the next
\* occlusion pass that reaches it while it is audible, its component alive
\* and budget left casts a ray for it, however recent its last update;
\* directly after the call the entry is in the forgotten state whenever it
\* had valid parameters; ForceSourceUpdate of an unknown ID changes nothing
C35_ForceDefeatsCache ==
    [][/\ \A id \in Ids :
            (/\ OcclusionReaches(id)
             /\ Forced(id)
             /\ RegisteredSources[id].EffectiveLOD # Off
             /\ IsLive(RegisteredSources[id].SourceComponent)
             /\ CurrentBudget.TotalRaysUsed < CurrentBudget.TotalRaysBudget)
            => /\ CurrentBudget'.OcclusionRays = CurrentBudget.OcclusionRays + 1
               /\ CurrentBudget'.TotalRaysUsed = CurrentBudget.TotalRaysUsed + 1
               /\ RegisteredSources'[id].LastOcclusionUpdateTime = now
               /\ RegisteredSources'[id].PreviousParams =
                     RegisteredSources[id].CurrentParams
       /\ \A id \in 1..MaxSourceId :
            ForceSourceUpdate(id) =>
               IF id \in Ids
               THEN RegisteredSources[id].CurrentParams.bIsValid => Forced(id)'
               ELSE UNCHANGED vars
      ]_vars

\* source 1 was traced in the first tick and, its update forgotten, traced
\* again two frames later, well inside the cache time of five frames;
\* source 2, traced in the first tick too, was passed by
C35_Witness ==
    /\ pc = "occlusion"
    /\ iter = <<>>
    /\ now = StartTime + 4
    /\ Ids = {1, 2}
    /\ RegisteredSources[1].LastOcclusionUpdateTime = now
    /\ RegisteredSources[1].PreviousParams.bIsValid
    /\ RegisteredSources[2].LastOcclusionUpdateTime = now - 2
    /\ CurrentBudget.OcclusionRays = 1

(***************************************************************************)
(* SpecAudible: the component's IsAudible() next to the scheduler's        *)
(* effective LOD.  Sources configured Off, Basic or Advanced, with and     *)
(* without the AlwaysAudible flag, stand at 0; the player is near, exactly *)
(* at OffLODDistance or beyond it.                                         *)
(***************************************************************************)
\* UAcousticSourceComponent::IsAudible.  The member EffectiveLOD it reads is
\* the component's own, which nothing assigns after construction.
IsAudible(c) ==
    IF ~comp[c].bIsRegistered THEN FALSE
    ELSE IF comp[c].EffectiveLOD = Off THEN FALSE
    ELSE IF comp[c].AlwaysAudible THEN TRUE
    ELSE LET Listener == IF Len(ListenerDataArray) > 0 THEN ListenerDataArray[1]
                         ELSE DefaultListenerData
         IN  Dist(comp[c].Location, Listener.Location) < Settings.OffLODDistance

AudibleProfiles ==
    <<NewComponent(Off, Normal, FALSE, 2, -1, 0),
      NewComponent(Basic, Normal, FALSE, 2, -1, 0),
      [NewComponent(Basic, Normal, FALSE, 2, -1, 0) EXCEPT !.AlwaysAudible = TRUE],
      NewComponent(Advanced, Normal, FALSE, 2, -1, 0)>>
AudibleViewPoints == {100, 8000, 9000}
AudibleDeltaTimes == {4}

InitAudible ==
    /\ InitEngine({MakeSettings(8, 1, 1)}, AudibleProfiles)
    /\ EmptyWorld
    /\ ConstructedEffects
    /\ NetBeginPlay
    /\ probe = NoProbe

NextAudible ==
    \/ \E c \in Comps : RegisterWithEngine(c)
    \/ \E dt \in AudibleDeltaTimes : \E v \in AudibleViewPoints : TickBegin(dt, <<v>>)
    \/ OcclusionStep({NoHit})
    \/ OcclusionDone
    \/ ReflectionStep({<<>>})
    \/ ReflectionDone
    \/ ApplyParamsToSources

SpecAudible == InitAudible /\ [][NextAudible]_vars

\* IsAudible() of every registered source with a live component is true
\* iff its effective LOD in the registry is not Off
AudibleAgrees ==
    \A id \in Ids :
        LET c == RegisteredSources[id].SourceComponent
        IN  IsLive(c) => (IsAudible(c) <=> RegisteredSources[id].EffectiveLOD # Off)

\* C37: after any tick the component's IsAudible() agrees with the
\* scheduler: it is true iff the effective LOD assigned to the source is not
\* Off, for every configured LOD, with and without AlwaysAudible, at every
\* distance
C37_AudibleAgrees ==
    [][(pc = "apply" /\ pc' = "idle") => AudibleAgrees']_vars

\* C39: a target that arrives while a blend is in progress starts the new
\* blend from the settings active at that moment: the first block after the
\* retarget uses settings no farther from those of the last block before it
\* than one block's step of the new blend, the fraction FrameTime /
\* BlendTime (at most 1) of the way to the new target.  Stated under
\* SpecReverb on the first block after every change of target that follows
\* at least one block.
C39_RetargetContinuous ==
    [][(/\ audio.pc = "idle" /\ writer.pc = "idle"
        /\ audio.NumFrames > 0
        /\ audio.Elapsed = 0
        /\ reverb.bIsBlending /\ reverb.BlendProgress = 0
        /\ audio'.Elapsed > 0)
       => LET ft == audio'.Elapsed
              before == audio.ActiveSettings.RT60
              after == audio'.ActiveSettings.RT60
              way == Abs(reverb.TargetSettings.RT60 - before)
          IN  IF ft >= BlendTimeInForce
              THEN Abs(after - before) <= way
              ELSE Abs(after - before) * BlendTimeInForce <= way * ft]_vars

(***************************************************************************)
(* SpecDelay: one DSP effect is instantiated on a 48 kHz device (the zone  *)
(* reverb on a stereo submix) and processes sample after sample, its       *)
(* settings changing at will between samples: values inside the declared   *)
(* ranges, at their ends, below them and far above.                        *)
(***************************************************************************)
DelaySampleRates == {48000}
ReverbChannels == 2
PreDelayValues == {-5, 100, Huge}
RoomSizeValues == {1, 100, Huge}
CrossfeedDelayValues == {-100, 200, 500, Huge}

InitDelay ==
    /\ InitEngine(RegistrySettings, IdsProfiles)
    /\ EmptyWorld
    /\ ConstructedEffects
    /\ NetBeginPlay
    /\ probe = NoProbe

NextDelay ==
    \/ \E sr \in DelaySampleRates : \E sat \in BOOLEAN :
          \/ DelayInit(ReverbInitResult(sr, ReverbChannels, sat))
          \/ DelayInit(CrossfeedInitResult(sr, sat))
          \/ DelayInit(SpatialWidthInitResult(sr, sat))
    \/ \E ms \in PreDelayValues : \E rs \in RoomSizeValues : ReverbProcessSample(ms, rs)
    \/ \E us \in CrossfeedDelayValues : CrossfeedProcessSample(us)
    \/ SpatialWidthExecute

SpecDelay == InitDelay /\ [][NextDelay]_vars

\* C40: in every reachable state of the DSP effects, after any number of
\* samples and for all values of pre-delay, room size and crossfeed delay,
\* every write index of a circular buffer and every read index computed
\* from it lies in [0, buffer size): pre-delay and early taps, allpass
\* diffusers, FDN tanks, crossfeed lines, spatial-width delays
C40_IndicesInRange ==
    /\ \A b \in 1..Len(delay.Size) :
          0 <= delay.WriteIndex[b] /\ delay.WriteIndex[b] < delay.Size[b]
    /\ \A k \in 1..Len(delay.WriteAt) :
          0 <= delay.WriteAt[k][2] /\ delay.WriteAt[k][2] < delay.Size[delay.WriteAt[k][1]]
    /\ \A k \in 1..Len(delay.ReadAt) :
          0 <= delay.ReadAt[k][2] /\ delay.ReadAt[k][2] < delay.Size[delay.ReadAt[k][1]]

\* the pre-delay line of the reverb has wrapped around, and the sample after
\* the wrap read its pre-delay from the end of the buffer
C40_Witness ==
    /\ delay.effect = "reverb"
    /\ delay.Samples > delay.Size[1]
    /\ delay.WriteIndex[1] = 1
    /\ Len(delay.ReadAt) = 17
    /\ delay.ReadAt[1][2] = delay.Size[1] - 1
    /\ \E k \in 2..9 : delay.ReadAt[k][2] > delay.WriteIndex[1]

====
